---------------------------- MODULE Spec2Model ----------------------------
(***************************************************************************)
(* A model of electrode/electrode.py: the point-pixel potential kernel,    *)
(* the cover-plane image sum, the PixelElectrode aggregation and its       *)
(* voltage-scaled quantities, the CoverElectrode, and the pixel-voltage    *)
(* optimizer.                                                              *)
(*                                                                         *)
(* Numbers.  Coordinates, areas, pixel factors and voltages are integers.  *)
(* A kernel value is an integer numerator over 2*pi*r^k with r the square  *)
(* root of an integer, so a real number of the program is kept exactly as  *)
(* a polynomial with integer coefficients in the formal units              *)
(*     U(r2, k) = f / (2*pi * sqrt(r2)^k)   (k odd, a kernel term of order *)
(*                (k-3)/2, with f = 1, 1, 3, 3, 15, 45 for k = 3..13)      *)
(*     U(h, 0)  = 1 / h                     (the cover electrode's slope)  *)
(* A unit is coded as the integer r2*16 + k, a monomial is the ascending   *)
(* sequence of its units, and a number ("Num") is the function from its    *)
(* monomials to their nonzero coefficients; <<>> is the number zero.       *)
(* Two equal Nums denote equal reals.                                      *)
(***************************************************************************)
EXTENDS Integers, Sequences, FiniteSets, TLC

(***************************************************************************)
(* Bounds of the model.                                                    *)
(***************************************************************************)
MaxNmax == 2        \* nmax ranges over 0..MaxNmax
MaxZ == 1           \* field points have z in 1..MaxZ
MaxPix == 2         \* electrodes have 1..MaxPix pixels
PMax == 2           \* the solver answers with integer points of -PMax..PMax
MaxPaths == 2       \* polygon electrodes have 0..MaxPaths paths
MaxSplitDepth == 1  \* sub-electrodes are split again up to this depth
KMax == 2           \* the kernel is called at points of (-KMax..KMax)^3

(***************************************************************************)
(* Exact arithmetic on Nums.                                               *)
(***************************************************************************)
UnitCode(r2, k) == r2 * 16 + k

NumZero == <<>>

NumInt(n) == IF n = 0 THEN NumZero ELSE (<<>> :> n)

NumUnit(n, u) == IF n = 0 THEN NumZero ELSE (<<u>> :> n)

Coef(a, m) == IF m \in DOMAIN a THEN a[m] ELSE 0

NumAdd(a, b) ==
  LET nz == {m \in DOMAIN a \cup DOMAIN b : Coef(a, m) + Coef(b, m) # 0}
  IN  [m \in nz |-> Coef(a, m) + Coef(b, m)]

NumScale(k, a) == IF k = 0 THEN NumZero ELSE [m \in DOMAIN a |-> k * a[m]]

NumNeg(a) == NumScale(-1, a)

RECURSIVE InsertUnit(_, _)
InsertUnit(u, m) ==
  IF m = <<>> THEN <<u>>
  ELSE IF u <= Head(m) THEN <<u>> \o m
  ELSE <<Head(m)>> \o InsertUnit(u, Tail(m))

RECURSIVE MonoMul(_, _)
MonoMul(m1, m2) ==
  IF m1 = <<>> THEN m2 ELSE MonoMul(Tail(m1), InsertUnit(Head(m1), m2))

\* The monomial m with the units of m1 taken out (m1 divides m).
RECURSIVE MonoDiv(_, _)
MonoDiv(m, m1) ==
  IF m1 = <<>> THEN m
  ELSE IF Head(m) = Head(m1) THEN MonoDiv(Tail(m), Tail(m1))
  ELSE <<Head(m)>> \o MonoDiv(Tail(m), m1)

\* The product of the single term c*m1 with the number b.
NumMulTerm(c, m1, b) ==
  [m \in {MonoMul(m1, m2) : m2 \in DOMAIN b} |-> c * b[MonoDiv(m, m1)]]

RECURSIVE NumMulOver(_, _, _)
NumMulOver(S, a, b) ==
  IF S = {} THEN NumZero
  ELSE LET m1 == CHOOSE m \in S : TRUE
       IN  NumAdd(NumMulTerm(a[m1], m1, b), NumMulOver(S \ {m1}, a, b))

NumMul(a, b) == NumMulOver(DOMAIN a, a, b)

RECURSIVE NumSum(_)
NumSum(s) == IF s = <<>> THEN NumZero ELSE NumAdd(Head(s), NumSum(Tail(s)))

(***************************************************************************)
(* norm() of utils: the Euclidean length of the last axis.  The model      *)
(* keeps its square.                                                       *)
(***************************************************************************)
norm2(p1) == p1[1]^2 + p1[2]^2 + p1[3]^2

(***************************************************************************)
(* Membership of an order in the argument tuple d ("k in d").              *)
(***************************************************************************)
InD(k, d) == \E i \in 1..Len(d) : d[i] = k

\* The entries a kernel yields: one per "if k in d" that holds, k = 0..5 in
\* the order of the source text.
RECURSIVE YieldedFrom(_, _)
YieldedFrom(k, d) ==
  IF k > 5 THEN <<>>
  ELSE (IF InD(k, d) THEN <<k>> ELSE <<>>) \o YieldedFrom(k + 1, d)

\* Entries in the order of the arguments, one per argument within 0..5.
YieldedAsAsked(d) == SelectSeq(d, LAMBDA k : k \in 0..5)

Yielded(d) == YieldedFrom(0, d)

(***************************************************************************)
(* _point_value: the numerators of the closed forms, per order.            *)
(***************************************************************************)
PointNumerators0(x, y, z, r2) == << z >>

\* An order-1 numerator with the z component of a monopole, r^2 - z^2.
PointNumerators1Monopole(x, y, z, r2) ==
  << -3*x*z,
     -3*y*z,
     r2-z^2 >>

PointNumerators1(x, y, z, r2) ==
  << -3*x*z,
     -3*y*z,
     r2-3*z^2 >>

\* Order-2 numerators whose xx component has the factor 3 of order 1.
PointNumerators2Factor3(x, y, z, r2) ==
  << -(r2-3*x^2)*z,
     5*x*y*z,
     -x*(r2-5*z^2),
     -(r2-5*y^2)*z,
     -y*(r2-5*z^2) >>

PointNumerators2(x, y, z, r2) ==
  << -(r2-5*x^2)*z,
     5*x*y*z,
     -x*(r2-5*z^2),
     -(r2-5*y^2)*z,
     -y*(r2-5*z^2) >>

\* Order-3 numerators whose xxy component has the factor 5 of order 2.
PointNumerators3Factor5(x, y, z, r2) ==
  << 5*(r2-5*x^2)*y*z,
     4*x^4-y^4+3*y^2*z^2+4*z^4+3*x^2*(y^2-9*z^2),
     -x^4+4*y^4-27*y^2*z^2+4*z^4+3*x^2*(y^2+z^2),
     5*x*(r2-7*y^2)*z,
     5*x*z*(3*(x^2+y^2)-4*z^2),
     5*y*z*(3*(x^2+y^2)-4*z^2),
     5*x*y*(r2-7*z^2) >>

PointNumerators3(x, y, z, r2) ==
  << 5*(r2-7*x^2)*y*z,
     4*x^4-y^4+3*y^2*z^2+4*z^4+3*x^2*(y^2-9*z^2),
     -x^4+4*y^4-27*y^2*z^2+4*z^4+3*x^2*(y^2+z^2),
     5*x*(r2-7*y^2)*z,
     5*x*z*(3*(x^2+y^2)-4*z^2),
     5*y*z*(3*(x^2+y^2)-4*z^2),
     5*x*y*(r2-7*z^2) >>

PointNumerators4(x, y, z, r2) ==
  << -21*x*(r2-3*x^2)*y*z,
     -(x*(4*x^4+x^2*(y^2-41*z^2)-3*(y^2-6*z^2)*(y^2+z^2))),
     z*(-6*x^4+51*x^2*y^2-6*y^4-5*(x^2+y^2)*z^2+z^4),
     -(z*(18*x^4-3*y^4+y^2*z^2+4*z^4+x^2*(15*y^2-41*z^2))),
     -21*x*y*(r2-3*y^2)*z,
     3*x*((x^2+y^2)^2-12*(x^2+y^2)*z^2+8*z^4),
     -(y*(-3*x^4+4*y^4-41*y^2*z^2+18*z^4+x^2*(y^2+15*z^2))),
     3*(x^2-6*y^2)*(x^2+y^2)*z-(x^2-41*y^2)*z^3-4*z^5,
     3*y*((x^2+y^2)^2-12*(x^2+y^2)*z^2+8*z^4) >>

PointNumerators5(x, y, z, r2) ==
  << 7*x*z*(2*x^4+8*y^4+7*y^2*z^2-z^4+x^2*(-23*y^2+z^2)),
     7*x*y*(2*x^4-y^4+7*y^2*z^2+8*z^4+x^2*(y^2-23*z^2)),
     21*x*z*(2*x^4-y^4+y^2*z^2+2*z^4+x^2*(y^2-7*z^2)),
     7*y*z*(8*x^4-23*x^2*y^2+2*y^4+(7*x^2+y^2)*z^2-z^4),
     -2*x^6-2*y^6+15*y^4*z^2+15*y^2*z^4-2*z^6+15*x^4*(y^2+z^2)+15*x^2*(y^4-12*y^2*z^2+z^4),
     7*y*z*(8*x^4-y^4+y^2*z^2+2*z^4+x^2*(7*y^2-23*z^2)),
     -((6*x^2-y^2)*(x^2+y^2)^2)+(101*x^2-11*y^2)*(x^2+y^2)*z^2-4*(29*x^2+y^2)*z^4+8*z^6,
     -7*x*y*(x^4-2*y^4+23*y^2*z^2-8*z^4-x^2*(y^2+7*z^2)),
     -7*x*z*(x^4-8*y^4+23*y^2*z^2-2*z^4-x^2*(7*y^2+z^2)),
     21*y*z*(-x^4+2*y^4-7*y^2*z^2+2*z^4+x^2*(y^2+z^2)),
     (x^2-6*y^2)*(x^2+y^2)^2+(-11*x^4+90*x^2*y^2+101*y^4)*z^2-4*(x^2+29*y^2)*z^4+8*z^6 >>

PointNumerators(k, x, y, z, r2) ==
  CASE k = 0 -> PointNumerators0(x, y, z, r2)
    [] k = 1 -> PointNumerators1(x, y, z, r2)
    [] k = 2 -> PointNumerators2(x, y, z, r2)
    [] k = 3 -> PointNumerators3(x, y, z, r2)
    [] k = 4 -> PointNumerators4(x, y, z, r2)
    [] k = 5 -> PointNumerators5(x, y, z, r2)

\* The denominators are 2*pi*r^3, 2*pi*r^5, 2*pi/3*r^7, 2*pi/3*r^9,
\* 2*pi/15*r^11 and 2*pi/45*r^13: the unit of order k, U(r2, 2k+3), is the
\* reciprocal of the k-th of them.
PointUnit(k, r2) == UnitCode(r2, 2 * k + 3)

\* One order of _point_value at field point x for areas a and points p:
\* order 0 is indexed by pixel, the other orders by component, then pixel.
PointEntry(k, x, a, p) ==
  LET p1(i) == <<x[1] - p[i][1], x[2] - p[i][2], x[3] - p[i][3]>>
      num(i) == PointNumerators(k, p1(i)[1], p1(i)[2], p1(i)[3], norm2(p1(i)))
      val(c, i) == NumUnit(a[i] * num(i)[c], PointUnit(k, norm2(p1(i))))
  IN  IF k = 0 THEN [i \in 1..Len(p) |-> val(1, i)]
      ELSE [c \in 1..(2 * k + 1) |-> [i \in 1..Len(p) |-> val(c, i)]]

point_value(x, a, p, d) ==
  [j \in 1..Len(Yielded(d)) |-> PointEntry(Yielded(d)[j], x, a, p)]

(***************************************************************************)
(* State.                                                                  *)
(*   el    the electrode under test, a record of its traits:               *)
(*         kind "point" (PointPixelElectrode): name, voltage_dc,           *)
(*              voltage_rf, pixel_factors, cover_height, nmax, points,     *)
(*              areas;                                                     *)
(*         kind "cover" (CoverElectrode): name, voltage_dc, voltage_rf,    *)
(*              cover_height, cover_height_is_int (the height is the       *)
(*              Python int of the trait's default, not a double).          *)
(*   last  the last call made on it: its name, its arguments, what it      *)
(*         returned or raised, and the calls it made on the way.           *)
(*   show_progress  cvxopt.solvers.options["show_progress"], an option of  *)
(*         the process (the solver prints its progress unless it is        *)
(*         FALSE).                                                         *)
(***************************************************************************)
VARIABLES el, last, show_progress

vars == <<el, last, show_progress>>

(***************************************************************************)
(* PixelElectrode.value: the bare kernel plus the image terms.             *)
(***************************************************************************)
\* Python 2 range(a, b) as a list.
range(a, b) == IF b > a THEN [i \in 1..(b - a) |-> a + i - 1] ELSE <<>>

\* PointPixelElectrode.value_no_cover: the two transposes (of point_value
\* and of value_no_cover) undo each other, the index order stays
\* (component, pixel).
value_no_cover(e, x, d) == point_value(x, e.areas, e.points, d)

\* r[i] += ri for one entry of order k.
AddEntry(k, A, B) ==
  IF k = 0 THEN [i \in DOMAIN A |-> NumAdd(A[i], B[i])]
  ELSE [c \in DOMAIN A |-> [i \in DOMAIN A[c] |-> NumAdd(A[c][i], B[c][i])]]

\* A loop that runs over n = 0 as well (range(-nmax, nmax+1)).
ImageIndicesWithZero(nmax) == range(-nmax, nmax + 1)

\* The list of image indices the loop of value() runs over.
ImageIndices(nmax) == range(-nmax, 0) \o range(1, nmax + 1)

\* A loop that takes a cover height left at 0 for the height 1.
RECURSIVE ValueLoopUnitCover(_, _, _, _, _)
ValueLoopUnitCover(e, x, d, ns, acc) ==
  IF ns = <<>> THEN acc
  ELSE LET n == Head(ns)
           h == IF e.cover_height = 0 THEN 1 ELSE e.cover_height
           xx == <<x[1], x[2], x[3] + 2 * n * h>>
           ri == value_no_cover(e, xx, d)
       IN  ValueLoopUnitCover(e, x, d, Tail(ns),
             [r |-> [i \in DOMAIN ri |->
                       AddEntry(Yielded(d)[i], acc.r[i], ri[i])],
              calls |-> Append(acc.calls, [n |-> n, xx |-> xx])])

\* The loop of value(): acc.r is the list r, acc.calls the calls of
\* value_no_cover made so far (the image index n and the point xx of each).
RECURSIVE ValueLoop(_, _, _, _, _)
ValueLoop(e, x, d, ns, acc) ==
  IF ns = <<>> THEN acc
  ELSE LET n == Head(ns)
           xx == <<x[1], x[2], x[3] + 2 * n * e.cover_height>>
           ri == value_no_cover(e, xx, d)
       IN  ValueLoop(e, x, d, Tail(ns),
             [r |-> [i \in DOMAIN ri |->
                       AddEntry(Yielded(d)[i], acc.r[i], ri[i])],
              calls |-> Append(acc.calls, [n |-> n, xx |-> xx])])

value(e, x, d) ==
  ValueLoop(e, x, d, ImageIndices(e.nmax),
            [r |-> value_no_cover(e, x, d),
             calls |-> <<[n |-> 0, xx |-> x]>>])

(***************************************************************************)
(* expand_tensor of utils: from the 2k+1 independent components of an      *)
(* order-k derivative of a harmonic field to the full symmetric tensor.    *)
(* A component is named by how often x, y and z occur among its indices;   *)
(* the closed forms of _point_value list, per order, the derivatives       *)
(*   1: x y z                 2: xx xy xz yy yz                            *)
(*   3: xxy xxz yyz xyy xzz yzz xyz                                        *)
(*   4: xxxy xxxz xxyy xxzz xyyy xzzz yyyz yyzz yzzz                       *)
(*   5: xxxyy xxxyz xxxzz xxyyy xxyyz xxyzz xxzzz xyyyz xyyzz yyyzz yyzzz  *)
(* and every other component follows from Laplace's equation.              *)
(***************************************************************************)
ComponentNames(k) ==
  CASE k = 0 -> << <<0,0,0>> >>
    [] k = 1 -> << <<1,0,0>>, <<0,1,0>>, <<0,0,1>> >>
    [] k = 2 -> << <<2,0,0>>, <<1,1,0>>, <<1,0,1>>, <<0,2,0>>, <<0,1,1>> >>
    [] k = 3 -> << <<2,1,0>>, <<2,0,1>>, <<0,2,1>>, <<1,2,0>>, <<1,0,2>>,
                   <<0,1,2>>, <<1,1,1>> >>
    [] k = 4 -> << <<3,1,0>>, <<3,0,1>>, <<2,2,0>>, <<2,0,2>>, <<1,3,0>>,
                   <<1,0,3>>, <<0,3,1>>, <<0,2,2>>, <<0,1,3>> >>
    [] k = 5 -> << <<3,2,0>>, <<3,1,1>>, <<3,0,2>>, <<2,3,0>>, <<2,2,1>>,
                   <<2,1,2>>, <<2,0,3>>, <<1,3,1>>, <<1,2,2>>, <<0,3,2>>,
                   <<0,2,3>> >>

\* The axis that occurs most often (the first of them).
MaxAxis(n) ==
  CHOOSE a \in 1..3 : /\ \A b \in 1..3 : n[b] <= n[a]
                      /\ \A b \in 1..(a - 1) : n[b] < n[a]

\* Two indices moved from axis a to axis b.
MoveTwo(n, a, b) ==
  [i \in 1..3 |-> IF i = a THEN n[i] - 2 ELSE IF i = b THEN n[i] + 2 ELSE n[i]]

RECURSIVE TensorComponent(_, _, _)
TensorComponent(c, k, n) ==
  LET names == ComponentNames(k)
  IN  IF \E j \in 1..Len(names) : names[j] = n
      THEN c[CHOOSE j \in 1..Len(names) : names[j] = n]
      ELSE LET a == MaxAxis(n)
               others == (1..3) \ {a}
               b1 == CHOOSE b \in others : \A bb \in others : b <= bb
               b2 == CHOOSE b \in others : b # b1
           IN  NumNeg(NumAdd(TensorComponent(c, k, MoveTwo(n, a, b1)),
                             TensorComponent(c, k, MoveTwo(n, a, b2))))

RECURSIVE TensorFill(_, _, _, _)
TensorFill(c, k, left, n) ==
  IF left = 0 THEN TensorComponent(c, k, n)
  ELSE [i \in 1..3 |->
          TensorFill(c, k, left - 1, [n EXCEPT ![i] = n[i] + 1])]

expand_tensor(c) ==
  LET k == (Len(c) - 1) \div 2 IN TensorFill(c, k, k, <<0, 0, 0>>)

(***************************************************************************)
(* Tensors of Nums: order 0 is a Num, order k+1 a 3-sequence of order k.   *)
(***************************************************************************)
RECURSIVE TensorScale(_, _, _)
TensorScale(s, T, k) ==
  IF k = 0 THEN NumScale(s, T)
  ELSE [i \in 1..3 |-> TensorScale(s, T[i], k - 1)]

RECURSIVE TensorAdd(_, _, _)
TensorAdd(A, B, k) ==
  IF k = 0 THEN NumAdd(A, B)
  ELSE [i \in 1..3 |-> TensorAdd(A[i], B[i], k - 1)]

RECURSIVE TensorZero(_)
TensorZero(k) == IF k = 0 THEN NumZero ELSE [i \in 1..3 |-> TensorZero(k - 1)]

(***************************************************************************)
(* PixelElectrode.potential.                                               *)
(***************************************************************************)
\* A sum over the pixels that leaves the pixel factors out.
PixelSumUnweighted(pf, row) == NumSum(row)

\* (pixel_factors[:, None]*vi).sum(axis=-2): the sum over the pixels.
PixelSum(pf, row) == NumSum([i \in 1..Len(row) |-> NumScale(pf[i], row[i])])

\* One entry vi of order k, weighted, summed over the pixels and expanded.
PotentialEntry(pf, k, vi) ==
  expand_tensor(IF k = 0 THEN <<PixelSum(pf, vi)>>
                ELSE [c \in DOMAIN vi |-> PixelSum(pf, vi[c])])

pixel_potential(e, x, d) ==
  LET v == value(e, x, d)
  IN  [r |-> [i \in DOMAIN v.r |->
                PotentialEntry(e.pixel_factors, Yielded(d)[i], v.r[i])],
       calls |-> v.calls]

(***************************************************************************)
(* CoverElectrode.potential: x[:, 2]/cover_height, 1/cover_height along z, *)
(* and zeros.  The module is Python 2 without true division, and           *)
(* potential() does not convert x (line 74), so "/" is the division of     *)
(* its operand types: the quotient of two integers is their floor.  The    *)
(* field point x is the array the caller passes: three coordinates are an  *)
(* array of doubles, an array of integers carries its dtype as a fourth    *)
(* entry.  PixelElectrode.value converts x to doubles (line 134), so the   *)
(* dtype matters to the cover electrode only.                              *)
(***************************************************************************)
IsIntArray(x) == Len(x) = 4

\* x[:, 2]/self.cover_height (line 77).
CoverQuotient(e, x) ==
  IF IsIntArray(x) /\ e.cover_height_is_int
  THEN NumInt(x[3] \div e.cover_height)
  ELSE NumUnit(x[3], UnitCode(e.cover_height, 0))

\* 1/self.cover_height (line 80).
CoverSlope(e) ==
  IF e.cover_height_is_int
  THEN NumInt(1 \div e.cover_height)
  ELSE NumUnit(1, UnitCode(e.cover_height, 0))

CoverEntry(e, x, k) ==
  CASE k = 0 -> CoverQuotient(e, x)
    [] k = 1 -> <<NumZero, NumZero, CoverSlope(e)>>
    [] OTHER -> TensorZero(k)

cover_potential(e, x, d) ==
  [r |-> [i \in 1..Len(Yielded(d)) |-> CoverEntry(e, x, Yielded(d)[i])],
   calls |-> <<>>]

potential(e, x, d) ==
  IF e.kind = "cover" THEN cover_potential(e, x, d) ELSE pixel_potential(e, x, d)

(***************************************************************************)
(* The voltage-scaled quantities.  Each returns its result r, the calls of *)
(* potential() it made (pcalls: the point and the orders asked for) and    *)
(* the kernel calls made below them.                                       *)
(***************************************************************************)
\* The electrical quantities scaled by the RF voltage.
electricalScaledByRf(e, x, k) ==
  LET pot == potential(e, x, <<k>>)
  IN  [r |-> TensorScale(e.voltage_rf, pot.r[1], k),
       pcalls |-> <<[x |-> x, d |-> <<k>>]>>,
       calls |-> pot.calls]

\* electrical_potential, _gradient, _curvature, _thirdderiv: k = 0, 1, 2, 3.
electrical(e, x, k) ==
  LET pot == potential(e, x, <<k>>)
  IN  [r |-> TensorScale(e.voltage_dc, pot.r[1], k),
       pcalls |-> <<[x |-> x, d |-> <<k>>]>>,
       calls |-> pot.calls]

\* A pseudo-potential linear in the RF voltage.
pseudo_potential_linear(e, x) ==
  LET pot == potential(e, x, <<1>>)
      E == pot.r[1]
  IN  [r |-> NumScale(e.voltage_rf,
                      NumSum([i \in 1..3 |-> NumMul(E[i], E[i])])),
       pcalls |-> <<[x |-> x, d |-> <<1>>]>>,
       calls |-> pot.calls]

pseudo_potential(e, x) ==
  LET pot == potential(e, x, <<1>>)
      E == pot.r[1]
  IN  [r |-> NumScale(e.voltage_rf^2,
                      NumSum([i \in 1..3 |-> NumMul(E[i], E[i])])),
       pcalls |-> <<[x |-> x, d |-> <<1>>]>>,
       calls |-> pot.calls]

\* A pseudo-gradient that asks for the two orders in two calls.
pseudo_gradient_two_calls(e, x) ==
  LET pe == potential(e, x, <<1>>)
      pg == potential(e, x, <<2>>)
      E == pe.r[1]
      G == pg.r[1]
  IN  [r |-> [j \in 1..3 |->
                NumScale(e.voltage_rf^2 * 2,
                         NumSum([i \in 1..3 |-> NumMul(E[i], G[i][j])]))],
       pcalls |-> <<[x |-> x, d |-> <<1>>], [x |-> x, d |-> <<2>>]>>,
       calls |-> pe.calls \o pg.calls]

pseudo_gradient(e, x) ==
  LET pot == potential(e, x, <<1, 2>>)
      E == pot.r[1]
      G == pot.r[2]
  IN  [r |-> [j \in 1..3 |->
                NumScale(e.voltage_rf^2 * 2,
                         NumSum([i \in 1..3 |-> NumMul(E[i], G[i][j])]))],
       pcalls |-> <<[x |-> x, d |-> <<1, 2>>]>>,
       calls |-> pot.calls]

pseudo_curvature(e, x) ==
  LET pot == potential(e, x, <<1, 2, 3>>)
      E == pot.r[1]
      G == pot.r[2]
      C == pot.r[3]
  IN  [r |-> [j \in 1..3 |-> [k \in 1..3 |->
                NumScale(e.voltage_rf^2 * 2,
                         NumSum([i \in 1..3 |->
                                   NumAdd(NumMul(G[i][j], G[i][k]),
                                          NumMul(E[i], C[i][j][k]))]))]],
       pcalls |-> <<[x |-> x, d |-> <<1, 2, 3>>]>>,
       calls |-> pot.calls]

(***************************************************************************)
(* Inputs.                                                                 *)
(***************************************************************************)
\* Field points above the electrode plane, over and beside the pixels.
FieldPoints == {<<x, y, z>> : x \in {0, 1}, y \in {0, 1}, z \in 1..MaxZ}

\* The same points passed as arrays of integers.
IntFieldPoints == {<<x[1], x[2], x[3], "int">> : x \in FieldPoints}

\* The arrays an evaluation is called with: the dtype is told apart for
\* the electrode that does not convert x.
FieldArrays(e) ==
  IF e.kind = "cover" THEN FieldPoints \cup IntFieldPoints ELSE FieldPoints

\* Argument tuples *d: single orders, the tuples the pseudo-potentials ask
\* for, a permutation, a repetition, the empty tuple, and orders outside
\* 0..5.
OrderTuples ==
  { <<>>, <<0>>, <<1>>, <<2>>, <<3>>, <<4>>, <<5>>, <<1, 2>>, <<2, 1>>,
    <<1, 2, 3>>, <<0, 0>>, <<6>>, <<-1>>, <<1, 6>> }

\* The tuples value() is called with directly.
ValueTuples == { <<>>, <<0>>, <<1>>, <<3>>, <<5>>, <<1, 2>>, <<2, 1>>, <<6>> }

Voltages == {-1, 0, 2}
PixelFactorValues == {-1, 0, 2}

\* The i-th pixel of a geometry: the points of the unit grid in the plane.
PointAt(i) == <<(i - 1) % 2, (i - 1) \div 2, 0>>

Ones(n) == [i \in 1..n |-> 1]

\* PointPixelElectrode(name=, points=, [areas=], [pixel_factors=], [nmax=],
\* [cover_height=], [voltage_dc=], [voltage_rf=]): a trait not given takes
\* its default (areas and pixel_factors all ones, the others 0).
PointPixelElectrodes ==
  { [kind |-> "point", name |-> "e", voltage_dc |-> v[1], voltage_rf |-> v[2],
     pixel_factors |-> g[3], cover_height |-> h, nmax |-> nm,
     points |-> [i \in 1..g[1] |-> PointAt(i)], areas |-> g[2]] :
    g \in UNION { {n} \X {Ones(n), [i \in 1..n |-> 1 + (i % 2)]}
                      \X {Ones(n), [i \in 1..n |-> 3 * (i % 2) - 1]} :
                  n \in 1..MaxPix },
    nm \in 0..MaxNmax, h \in {0, 1},
    v \in {<<0, 0>>, <<2, -1>>} }

\* The defaults of the trait cover_height: Float for a PixelElectrode,
\* Float(100) for a CoverElectrode.
PixelCoverHeightDefault == 0
CoverElectrodeHeightDefault == 100

\* CoverElectrode([cover_height=], [voltage_dc=], [voltage_rf=]).  The
\* default of the trait is the integer 100 as written at line 68; a height
\* that is assigned goes through the Float trait and is kept as a double.
CoverElectrodes ==
  { [kind |-> "cover", name |-> "c", voltage_dc |-> v[1], voltage_rf |-> v[2],
     cover_height |-> h[1], cover_height_is_int |-> h[2]] :
    h \in {<<CoverElectrodeHeightDefault, TRUE>>, <<2, FALSE>>, <<100, FALSE>>},
    v \in {<<0, 0>>, <<2, -1>>} }

\* A kernel call at a source point (r = 0) divides by zero: the calls of
\* the model stay away from the sources and their images.
OnSource(e, x) ==
  /\ e.kind = "point"
  /\ \E n \in (-e.nmax)..e.nmax, i \in 1..Len(e.points) :
       norm2(<<x[1] - e.points[i][1], x[2] - e.points[i][2],
               x[3] + 2 * n * e.cover_height - e.points[i][3]>>) = 0

(***************************************************************************)
(* The evaluation calls.                                                   *)
(***************************************************************************)
Init ==
  /\ el \in PointPixelElectrodes \cup CoverElectrodes
  /\ last = [op |-> "none"]
  /\ show_progress = TRUE

\* A value() that keeps its result by resetting the pixel factors.
CallValueResettingFactors(x, d) ==
  /\ last.op = "none"
  /\ el.kind = "point"
  /\ ~OnSource(el, x)
  /\ last' = [op |-> "value", x |-> x, d |-> d, raises |-> "none"] @@ value(el, x, d)
  /\ el' = [el EXCEPT !.pixel_factors = Ones(Len(@))]
  /\ UNCHANGED show_progress

CallValue(x, d) ==
  /\ last.op = "none"
  /\ el.kind = "point"
  /\ ~OnSource(el, x)
  /\ last' = [op |-> "value", x |-> x, d |-> d, raises |-> "none"] @@ value(el, x, d)
  /\ UNCHANGED <<el, show_progress>>

CallPotential(x, d) ==
  /\ last.op = "none"
  /\ x \in FieldArrays(el)
  /\ ~OnSource(el, x)
  /\ last' = [op |-> "potential", x |-> x, d |-> d, raises |-> "none"] @@ potential(el, x, d)
  /\ UNCHANGED <<el, show_progress>>

\* electrical_thirdderiv (k = 3) is a method of PixelElectrode only.
CallElectrical(x, k) ==
  /\ last.op = "none"
  /\ x \in FieldArrays(el)
  /\ ~OnSource(el, x)
  /\ el.kind = "cover" => k <= 2
  /\ last' = [op |-> "electrical", x |-> x, k |-> k, raises |-> "none"] @@ electrical(el, x, k)
  /\ UNCHANGED <<el, show_progress>>

CallPseudoPotential(x) ==
  /\ last.op = "none"
  /\ el.kind = "point"
  /\ ~OnSource(el, x)
  /\ last' = [op |-> "pseudo_potential", x |-> x, raises |-> "none"] @@ pseudo_potential(el, x)
  /\ UNCHANGED <<el, show_progress>>

CallPseudoGradient(x) ==
  /\ last.op = "none"
  /\ el.kind = "point"
  /\ ~OnSource(el, x)
  /\ last' = [op |-> "pseudo_gradient", x |-> x, raises |-> "none"] @@ pseudo_gradient(el, x)
  /\ UNCHANGED <<el, show_progress>>

CallPseudoCurvature(x) ==
  /\ last.op = "none"
  /\ el.kind = "point"
  /\ ~OnSource(el, x)
  /\ last' = [op |-> "pseudo_curvature", x |-> x, raises |-> "none"] @@ pseudo_curvature(el, x)
  /\ UNCHANGED <<el, show_progress>>

\* The caller takes the result; the electrode is ready for the next call.
Return ==
  /\ last.op # "none"
  /\ last' = [op |-> "none"]
  /\ UNCHANGED <<el, show_progress>>

Next ==
  \/ Return
  \/ \E x \in FieldPoints, d \in ValueTuples : CallValue(x, d)
  \/ \E x \in FieldPoints \cup IntFieldPoints, d \in OrderTuples :
       CallPotential(x, d)
  \/ \E x \in FieldPoints \cup IntFieldPoints, k \in 0..3 :
       CallElectrical(x, k)
  \/ \E x \in FieldPoints : CallPseudoPotential(x)
  \/ \E x \in FieldPoints : CallPseudoGradient(x)
  \/ \E x \in FieldPoints : CallPseudoCurvature(x)

Spec == Init /\ [][Next]_vars

(***************************************************************************)
(* PixelElectrode.optimize.                                                *)
(*                                                                         *)
(* The constraints are objects with two methods: objective(electrode, p)   *)
(* gives a list of pairs (row, target value) and constraints(electrode, p) *)
(* a list of solver constraints on the variable p.  Here a constraint      *)
(* object is the record of the two lists: obj holds pairs <<row, value>>   *)
(* of integers, ctrs holds bounds [kind, c] meaning p[i] <= c ("le") or    *)
(* p[i] >= c ("ge") for every i.                                           *)
(*                                                                         *)
(* The inhomogeneous solution g = b*pinv(B).T is the rational vector G/D   *)
(* with G an integer vector and D a positive integer, so g*g.T = GG/D^2    *)
(* with GG = G.G.  B1 = B - b.T*g/(g*g.T) has the elements                 *)
(* (GG*B[i][j] - D*b[i]*G[j])/GG: the model keeps the numerators and the   *)
(* common denominator, and 0/0 (GG = 0) is the NaN that numpy's division   *)
(* produces.  The factor c = p.g/(g.g) is D*(p.G)/GG.                      *)
(***************************************************************************)
RECURSIVE SumSeq(_)
SumSeq(s) == IF s = <<>> THEN 0 ELSE Head(s) + SumSeq(Tail(s))

Dot(u, v) == SumSeq([i \in 1..Len(u) |-> u[i] * v[i]])

RECURSIVE Flatten(_)
Flatten(ss) == IF ss = <<>> THEN <<>> ELSE Head(ss) \o Flatten(Tail(ss))

Zeros(n) == [i \in 1..n |-> 0]

\* np.matrix([]) has no elements and the product with its pseudo-inverse
\* fails: LinAlgError from pinv, or ValueError from the product of
\* mismatched shapes, depending on the numpy at hand.
PinvRaises(B) == Len(B) = 0

\* g = b*pinv(B).T for at most two rows, as [G, D] with g = G/D.
\*   one row beta:      pinv = beta.T/(beta.beta), or 0 for beta = 0;
\*   two rows, rank 2:  pinv = B.T*(B*B.T)^-1;
\*   two rows, rank 1:  pinv = B.T/trace(B*B.T); rank 0: pinv = 0.
inhomogeneous(B, b, n) ==
  IF Len(B) = 0 THEN [G |-> Zeros(n), D |-> 1]
  ELSE IF Len(B) = 1
  THEN LET bb == Dot(B[1], B[1])
       IN  IF bb = 0 THEN [G |-> Zeros(n), D |-> 1]
           ELSE [G |-> [j \in 1..n |-> b[1] * B[1][j]], D |-> bb]
  ELSE LET a11 == Dot(B[1], B[1])
           a12 == Dot(B[1], B[2])
           a22 == Dot(B[2], B[2])
           det == a11 * a22 - a12 * a12
           w1 == a22 * b[1] - a12 * b[2]
           w2 == a11 * b[2] - a12 * b[1]
       IN  IF det # 0
           THEN [G |-> [j \in 1..n |-> w1 * B[1][j] + w2 * B[2][j]], D |-> det]
           ELSE IF a11 + a22 = 0 THEN [G |-> Zeros(n), D |-> 1]
           ELSE [G |-> [j \in 1..n |-> b[1] * B[1][j] + b[2] * B[2][j]],
                 D |-> a11 + a22]

\* A B1 that is B itself: nothing projected out.
B1Unprojected(B, b, G, D) ==
  [num |-> [i \in 1..Len(B) |-> [j \in 1..Len(G) |-> Dot(G, G) * B[i][j]]],
   den |-> Dot(G, G)]

\* A B1 with the inhomogeneous part added instead of taken out.
B1Added(B, b, G, D) ==
  [num |-> [i \in 1..Len(B) |->
              [j \in 1..Len(G) |-> Dot(G, G) * B[i][j] + D * b[i] * G[j]]],
   den |-> Dot(G, G)]

\* B1 = B - b.T*g/(g*g.T).
B1Projected(B, b, G, D) ==
  [num |-> [i \in 1..Len(B) |->
              [j \in 1..Len(G) |-> Dot(G, G) * B[i][j] - D * b[i] * G[j]]],
   den |-> Dot(G, G)]

\* A B1 that loses its first row.
DropFirst(M) == [i \in 1..(IF Len(M) = 0 THEN 0 ELSE Len(M) - 1) |-> M[i + 1]]

\* B1[:-1]
DropLast(M) == [i \in 1..(IF Len(M) = 0 THEN 0 ELSE Len(M) - 1) |-> M[i]]

(***************************************************************************)
(* The convex solver behind solver.solve("sparse"): a linear program over  *)
(* the reals,                                                              *)
(*   maximize g.p  subject to  eq*p = 0  and the bounds ctrs.              *)
(* It is not part of the repository.  The model takes its documented       *)
(* contract and leaves the choice among the admissible answers open:       *)
(*   - it assumes Rank(A) = rows(A) and Rank([G; A]) = n and raises        *)
(*     ValueError otherwise;                                               *)
(*   - status "optimal": the variable holds a feasible point of greatest   *)
(*     objective;                                                          *)
(*   - status "primal infeasible" or "unknown": the variable holds None;   *)
(*   - status "dual infeasible" (unbounded): the variable holds a          *)
(*     certificate, a direction of the feasible set that improves the      *)
(*     objective;                                                          *)
(*   - "unknown" can end any run (iteration limit, numerical trouble);     *)
(*   - a NaN among the coefficients ends in ValueError or in "unknown".    *)
(*                                                                         *)
(* A point is a rational vector value/den with an integer vector value and *)
(* a positive integer den, in lowest terms.  With the rank assumption the  *)
(* feasible set has no line, so it is empty or has a vertex, and a bounded *)
(* program takes its optimum at a vertex: the program is solved exactly on *)
(* the vertices (intersections of the equality and the bounds).  Where the *)
(* optimum is unique it is the one point the solver can return; where a    *)
(* whole face is optimal the solver returns a point of its choosing, of    *)
(* which the model lists the vertices and the integer points of the face.  *)
(* Every positive multiple of a certificate is a certificate: the model    *)
(* lists the direction itself and the multiple with g.p = 1.               *)
(***************************************************************************)
Grid(n) == [1..n -> (-PMax)..PMax]

RECURSIVE GCDOf(_)
GCDOf(v) ==
  IF v = <<>> THEN 0
  ELSE LET h == IF Head(v) < 0 THEN -Head(v) ELSE Head(v)
           t == GCDOf(Tail(v))
           RECURSIVE Euclid(_, _)
           Euclid(x, y) == IF y = 0 THEN x ELSE Euclid(y, x % y)
       IN  Euclid(h, t)

\* The point v/d in lowest terms with a positive denominator (d # 0).
Point(v, d) ==
  LET k == GCDOf(Append(v, d))
      sgn == IF d < 0 THEN -1 ELSE 1
  IN  [value |-> [i \in 1..Len(v) |-> sgn * (v[i] \div k)],
       den |-> sgn * (d \div k)]

SatisfiesBound(q, ct) ==
  \A i \in 1..Len(q.value) :
    IF ct.kind = "le" THEN q.value[i] <= ct.c * q.den
    ELSE q.value[i] >= ct.c * q.den

\* The point q satisfies everything handed to the solver.
Feasible(q, eq, ctrs) ==
  /\ \A i \in 1..Len(eq) : Dot(eq[i], q.value) = 0
  /\ \A i \in 1..Len(ctrs) : SatisfiesBound(q, ctrs[i])

\* g.q1 <= g.q2 for two points (G is a positive multiple of g).
NoBetter(G, q1, q2) == Dot(G, q1.value) * q2.den <= Dot(G, q2.value) * q1.den

\* The rank of a matrix of at most two rows.
Rank(A) ==
  IF \A i \in 1..Len(A) : \A j \in 1..Len(A[i]) : A[i][j] = 0 THEN 0
  ELSE IF /\ Len(A) = 2
          /\ \E j, k \in 1..Len(A[1]) :
               A[1][j] * A[2][k] - A[1][k] * A[2][j] # 0
  THEN 2 ELSE 1

\* The points where an equality a*p1 + b*p2 = 0 meets a bound p1 = c or
\* p2 = c; the points where two bounds meet are on the grid.
Vertices(eq, ctrs, n) ==
  IF n # 2 THEN {}
  ELSE UNION { UNION {
         (IF eq[i][2] # 0
          THEN {Point(<<ctrs[k].c * eq[i][2], -ctrs[k].c * eq[i][1]>>, eq[i][2])}
          ELSE {}) \cup
         (IF eq[i][1] # 0
          THEN {Point(<<-ctrs[k].c * eq[i][2], ctrs[k].c * eq[i][1]>>, eq[i][1])}
          ELSE {}) : k \in 1..Len(ctrs) } : i \in 1..Len(eq) }

\* The vertices and the integer points.
Candidates(eq, ctrs, n) ==
  { Point(q, 1) : q \in Grid(n) } \cup Vertices(eq, ctrs, n)

\* Directions tried for unboundedness: the unit steps and, for a single
\* equality in the plane, the two directions along its line.
Directions(eq, n) ==
  [1..n -> -1..1] \cup
  (IF n = 2 /\ Len(eq) = 1
   THEN {<<-eq[1][2], eq[1][1]>>, <<eq[1][2], -eq[1][1]>>} ELSE {})

\* Directions in which the feasible set is unbounded and g.p grows.
ImprovingRays(G, eq, ctrs, n) ==
  { q \in Directions(eq, n) :
      /\ \A i \in 1..Len(eq) : Dot(eq[i], q) = 0
      /\ \A i \in 1..Len(ctrs) :
           \A j \in 1..n : IF ctrs[i].kind = "le" THEN q[j] <= 0 ELSE q[j] >= 0
      /\ Dot(G, q) > 0 }

\* pvalue/pden is the value of the variable (pvalue = <<>>: None).
Outcome(status, pvalue, pden, raises) ==
  [status |-> status, value |-> pvalue, den |-> pden, raises |-> raises]

\* The outcomes of one solve, for g = G/D.
Solve(G, D, eq, nan, ctrs, n) ==
  LET feasible == { q \in Candidates(eq, ctrs, n) : Feasible(q, eq, ctrs) }
      rays == ImprovingRays(G, eq, ctrs, n)
  IN  IF nan
      THEN { Outcome("none", <<>>, 1, "ValueError"),
             Outcome("unknown", <<>>, 1, "none") }
      ELSE IF Rank(eq) < Len(eq) \/ (ctrs = <<>> /\ Rank(eq) < n)
      THEN { Outcome("none", <<>>, 1, "ValueError") }
      ELSE { Outcome("unknown", <<>>, 1, "none") } \cup
           (IF feasible = {}
            THEN { Outcome("primal infeasible", <<>>, 1, "none") }
            ELSE IF rays # {}
            THEN { Outcome("dual infeasible", q.value, q.den, "none") :
                     q \in { Point(r, 1) : r \in rays } \cup
                           { Point([j \in 1..n |-> D * r[j]], Dot(G, r)) :
                               r \in rays } }
            ELSE { Outcome("optimal", q.value, q.den, "none") :
                     q \in { q1 \in feasible :
                               \A q2 \in feasible : NoBetter(G, q2, q1) } })

(***************************************************************************)
(* optimize(constraints, verbose): the set of its possible outcomes, each  *)
(* with the intermediate quantities B, b, g, B1 and the equality handed to *)
(* the solver.  at is the source line an exception left from (0: none),    *)
(* show_progress the solver option after the call, given its value sp      *)
(* before.  The verbose branch only prints.  The vector returned is        *)
(* p/pden: p holds the numerators over the common denominator pden.        *)
(***************************************************************************)
optimize(e, constraints, verbose, sp) ==
  LET n == Len(e.pixel_factors)
      obj == Flatten([i \in 1..Len(constraints) |-> constraints[i].obj])
      ctrs == Flatten([i \in 1..Len(constraints) |-> constraints[i].ctrs])
      B == [i \in 1..Len(obj) |-> obj[i][1]]
      b == [i \in 1..Len(obj) |-> obj[i][2]]
      g == inhomogeneous(B, b, n)
      GG == Dot(g.G, g.G)
      B1 == B1Projected(B, b, g.G, g.D)
      eq == DropLast(B1.num)
      base == [op |-> "optimize", constraints |-> constraints,
               verbose |-> verbose, B |-> B, b |-> b]
      None == [num |-> 0, den |-> 1]
  IN  IF PinvRaises(B)
      THEN { base @@ [G |-> <<>>, D |-> 1, B1 |-> [num |-> <<>>, den |-> 1],
                      eq |-> <<>>, ctrs |-> ctrs, solver_calls |-> 0,
                      status |-> "none", p |-> <<>>, pden |-> 1, c |-> None,
                      raises |-> x, at |-> 196, returned |-> FALSE,
                      show_progress |-> sp] :
             x \in {"LinAlgError", "ValueError"} }
      ELSE { base @@ [G |-> g.G, D |-> g.D, B1 |-> B1, eq |-> eq, ctrs |-> ctrs,
                      solver_calls |-> 1, status |-> out.status,
                      show_progress |-> IF verbose THEN sp ELSE FALSE] @@
             (IF out.raises # "none"
              THEN [p |-> <<>>, pden |-> 1, c |-> None, raises |-> out.raises,
                    at |-> 220, returned |-> FALSE]
              ELSE IF out.status \in {"primal infeasible", "unknown"}
              THEN \* np.matrix(None).T*g.T: None*float, or shapes (1,1), (n,1)
                   [p |-> <<>>, pden |-> 1, c |-> None,
                    raises |-> IF n = 1 THEN "TypeError" ELSE "ValueError",
                    at |-> 221, returned |-> FALSE]
              ELSE [p |-> out.value, pden |-> out.den,
                    c |-> [num |-> g.D * Dot(out.value, g.G),
                           den |-> GG * out.den],
                    raises |-> "none", at |-> 0, returned |-> TRUE]) :
             out \in Solve(g.G, g.D, eq, GG = 0 /\ Len(eq) > 0, ctrs, n) }

(***************************************************************************)
(* Inputs of the optimizer.                                                *)
(***************************************************************************)
\* A constraint with one objective row and no solver constraint.
Target(row, v) == [obj |-> <<<<row, v>>>>, ctrs |-> <<>>]

\* Constraints without objective rows: -c <= p[i] <= c, p[i] <= c, and a
\* pair of bounds no p satisfies.
Box(c) == [obj |-> <<>>, ctrs |-> <<[kind |-> "ge", c |-> -c], [kind |-> "le", c |-> c]>>]
Upper(c) == [obj |-> <<>>, ctrs |-> <<[kind |-> "le", c |-> c]>>]
Contradiction == [obj |-> <<>>, ctrs |-> <<[kind |-> "ge", c |-> 1], [kind |-> "le", c |-> -1]>>]

Targets(n) == { Target(row, v) : row \in [1..n -> {0, 1}], v \in {-1, 0, 1} }

\* Up to two targets followed by at most one constraint on the range of p.
ConstraintLists(n) ==
  { ts \o bs :
      ts \in {<<>>} \cup { <<t>> : t \in Targets(n) }
                    \cup { <<t1, t2>> : t1 \in Targets(n), t2 \in Targets(n) },
      bs \in { <<>>, <<Box(1)>>, <<Box(PMax)>>, <<Upper(1)>>, <<Contradiction>> } }

\* The optimizer reads the number of pixels only.
OptElectrodes ==
  { e \in PointPixelElectrodes :
      /\ Len(e.points) <= 2
      /\ e.nmax = 0 /\ e.cover_height = 0 /\ e.voltage_dc = 0
      /\ e.areas = Ones(Len(e.points)) /\ e.pixel_factors = Ones(Len(e.points)) }

InitOpt ==
  /\ el \in OptElectrodes
  /\ last = [op |-> "none"]
  /\ show_progress = TRUE

\* An optimize that puts the solver option back when it is done.
OptimizeRestoringProgress(constraints, verbose) ==
  /\ last.op = "none"
  /\ el.kind = "point"
  /\ \E out \in optimize(el, constraints, verbose, show_progress) :
       last' = [out EXCEPT !.show_progress = show_progress]
  /\ UNCHANGED <<el, show_progress>>

\* An optimize that stores the p it returns in the electrode.
OptimizeStoringFactors(constraints, verbose) ==
  /\ last.op = "none"
  /\ el.kind = "point"
  /\ \E out \in optimize(el, constraints, verbose, show_progress) :
       /\ last' = out
       /\ show_progress' = out.show_progress
       /\ el' = IF out.returned /\ out.pden = 1
                THEN [el EXCEPT !.pixel_factors = out.p] ELSE el

Optimize(constraints, verbose) ==
  /\ last.op = "none"
  /\ el.kind = "point"
  /\ \E out \in optimize(el, constraints, verbose, show_progress) :
       /\ last' = out
       /\ show_progress' = out.show_progress
  /\ UNCHANGED el

\* The caller writes the p it was given back: el.pixel_factors = p.  The
\* pixel factors of the electrodes here are integers, and so is every p
\* of the programs of SpecSeq (their optima are corners of the box).
WriteBack ==
  /\ last.op = "optimize"
  /\ last.returned
  /\ last.pden = 1
  /\ el' = [el EXCEPT !.pixel_factors = last.p]
  /\ last' = [op |-> "none"]
  /\ UNCHANGED show_progress

NextOpt ==
  \/ Return
  \/ \E constraints \in ConstraintLists(Len(el.pixel_factors)),
        verbose \in BOOLEAN : Optimize(constraints, verbose)

SpecOpt == InitOpt /\ [][NextOpt]_vars

(***************************************************************************)
(* Sequences of optimize calls with the caller writing p back in between.  *)
(***************************************************************************)
\* One target and the bounds -1 <= p[i] <= 1.
SeqConstraintLists(n) == { <<t, Box(1)>> : t \in Targets(n) }

NextSeq ==
  \/ Return
  \/ \E constraints \in SeqConstraintLists(Len(el.pixel_factors)),
        verbose \in BOOLEAN : Optimize(constraints, verbose)
  \/ WriteBack

SpecSeq == InitOpt /\ [][NextSeq]_vars

(***************************************************************************)
(* PolygonPixelElectrode: orientations.                                    *)
(*                                                                         *)
(* orientations() evaluates the order-0 polygon kernel at the probe point  *)
(* (0, 0, 1) and takes its sign.  The kernel is, per path, the sum over    *)
(* the edges of arctan2(a, b)/pi with                                      *)
(*   a = z*(x1*y2 - y1*x2),                                                *)
(*   b = zs*(r1*r2 + x1*x2 + y1*y2 + zs*(zs + r1 + r2)),  zs = |z|.        *)
(* The vertices used here are at integer distance from the probe point,    *)
(* so a and b are integers, and b > 0 because z = 1 and r1*r2 exceeds      *)
(* |x1*x2 + y1*y2|: every term lies strictly between -pi/2 and pi/2.  A    *)
(* sum of such angles is kept exactly as a direction re + i*im and the     *)
(* number of full turns beyond the principal range (-pi, pi].              *)
(*                                                                         *)
(* The code adds the terms in double precision, one after the other in    *)
(* the order of the edges.  Where the exact sum is away from zero the sign *)
(* of the float sum is the sign of the exact sum.  Where nonzero terms     *)
(* cancel to exactly zero (a path that retraces itself) the float sum is   *)
(* what the roundings of the additions leave, and it is computed below     *)
(* addition by addition as IEEE 754 round-to-nearest-even gives it.        *)
(*                                                                         *)
(* With no path polygon_value yields nothing, value_no_cover returns the   *)
(* empty list and the one-element unpacking at line 283 raises ValueError. *)
(***************************************************************************)
RECURSIVE GCD(_, _)
GCD(a, b) == IF b = 0 THEN (IF a < 0 THEN -a ELSE a) ELSE GCD(b, a % b)

Abs(a) == IF a < 0 THEN -a ELSE a

\* utils.norm for a vector at integer distance.
norm(p1) == CHOOSE r \in 0..norm2(p1) : r * r = norm2(p1)

AngleZero == [re |-> 1, im |-> 0, turns |-> 0]

\* s + arctan2(a, b) for b > 0.
AddAngle(s, a, b) ==
  LET re1 == s.re * b - s.im * a
      im1 == s.re * a + s.im * b
      g == GCD(Abs(re1), Abs(im1))
      up == a > 0 /\ s.im >= 0 /\ im1 < 0
      down == /\ a < 0
              /\ (s.im < 0 \/ (s.im = 0 /\ s.re > 0))
              /\ (im1 > 0 \/ (im1 = 0 /\ re1 < 0))
  IN  [re |-> re1 \div g, im |-> im1 \div g,
       turns |-> s.turns + (IF up THEN 1 ELSE IF down THEN -1 ELSE 0)]

\* np.sign of an angle sum.
AngleSign(s) ==
  IF s.turns > 0 THEN 1
  ELSE IF s.turns < 0 THEN -1
  ELSE IF s.im > 0 THEN 1
  ELSE IF s.im < 0 THEN -1
  ELSE IF s.re < 0 THEN 1 ELSE 0

\* np.roll(v, -1, axis=0): the next vertex, cyclically.
Roll(path, j) == path[(j % Len(path)) + 1]

\* The two arguments of arctan2 for the edge leaving vertex j.
EdgeTerm(x, path, j) ==
  LET p1 == <<x[1] - path[j][1], x[2] - path[j][2], x[3] - path[j][3]>>
      q == Roll(path, j)
      p2 == <<x[1] - q[1], x[2] - q[2], x[3] - q[3]>>
      z == p1[3]
      zs == Abs(z)
      r1 == norm(p1)
      r2 == norm(p2)
  IN  [a |-> z * (p1[1] * p2[2] - p1[2] * p2[1]),
       b |-> zs * (r1 * r2 + p1[1] * p2[1] + p1[2] * p2[2] + zs * (zs + r1 + r2))]

\* .sum(axis=0) over the edges: pi times the order-0 polygon kernel.
RECURSIVE EdgeSum(_, _, _, _)
EdgeSum(x, path, j, acc) ==
  IF j > Len(path) THEN acc
  ELSE EdgeSum(x, path, j + 1,
         AddAngle(acc, EdgeTerm(x, path, j).a, EdgeTerm(x, path, j).b))

ProbePoint == <<0, 0, 1>>

\* The edge terms of the path are not all zero and cancel to exactly zero.
RoundingResidue(path) ==
  /\ EdgeSum(ProbePoint, path, 1, AngleZero) = AngleZero
  /\ \E j \in 1..Len(path) : EdgeTerm(ProbePoint, path, j).a # 0

(***************************************************************************)
(* The double-precision sum where the terms cancel.  Every nonzero edge    *)
(* term of the paths used here is arctan2(8, 16) or arctan2(-8, 16).  The  *)
(* double nearest to arctan2(8, 16) is a = m * 2^-54 with the 53-bit       *)
(* integer m = 0x1DAC670561BB4F (a = 0x1.dac670561bb4fp-2), and            *)
(* arctan2(-8, 16) is -a.  In units of 2^-54 a partial sum is the integer  *)
(* k*m + dev for a count k of terms and a small deviation dev left by the  *)
(* roundings.  m lies between 1.85*2^52 and 1.86*2^52, so the doubles      *)
(* around |k|*m are spaced 1, 2, 4, 4, 8, 8, 8, 8 units apart for          *)
(* |k| = 1..8, and the sum at k = 0 is the difference of two neighbouring  *)
(* doubles, which is exact.  Rounding to a multiple of the spacing u needs *)
(* the sum modulo 2*u only, that is m modulo 16.                           *)
(***************************************************************************)
ArctanMantissaLow == 15   \* m % 16 for arctan2(8, 16) = m * 2^-54

\* The spacing of the doubles at |k|*m, in units of 2^-54.
Ulp(k) ==
  LET n == Abs(k)
  IN  IF n <= 1 THEN 1 ELSE IF n = 2 THEN 2 ELSE IF n <= 4 THEN 4 ELSE 8

\* The sign of the first arctan2 argument: +1 for arctan2(8, 16), -1 for
\* arctan2(-8, 16), 0 for arctan2(0, b) = 0.
TermSign(t) == IF t.a > 0 THEN 1 ELSE IF t.a < 0 THEN -1 ELSE 0

\* s + t*a in double precision, rounded to nearest, ties to even.
FloatAdd(s, t) ==
  LET k1 == s.k + t
      sg == IF k1 < 0 THEN -1 ELSE 1
      u == Ulp(k1)
      low == (Abs(k1) * ArctanMantissaLow + sg * s.dev) % (2 * u)
      r == low % u
      adj == IF 2 * r < u THEN -r
             ELSE IF 2 * r > u THEN u - r
             ELSE IF low < u THEN -r ELSE u - r
  IN  IF t = 0 \/ k1 = 0 THEN [k |-> k1, dev |-> s.dev]
      ELSE [k |-> k1, dev |-> s.dev + sg * adj]

\* .sum(axis=0) over the edges in double precision.
RECURSIVE FloatEdgeSum(_, _, _, _)
FloatEdgeSum(x, path, j, acc) ==
  IF j > Len(path) THEN acc
  ELSE FloatEdgeSum(x, path, j + 1,
         FloatAdd(acc, TermSign(EdgeTerm(x, path, j))))

\* np.sign of the double-precision sum.
FloatSign(s) ==
  IF s.k > 0 THEN 1
  ELSE IF s.k < 0 THEN -1
  ELSE IF s.dev > 0 THEN 1
  ELSE IF s.dev < 0 THEN -1 ELSE 0

\* np.sign(p[:, 0]) for one path.
PathSign(path) ==
  IF RoundingResidue(path)
  THEN FloatSign(FloatEdgeSum(ProbePoint, path, 1, [k |-> 0, dev |-> 0]))
  ELSE AngleSign(EdgeSum(ProbePoint, path, 1, AngleZero))

\* PolygonPixelElectrode.orientations / PointPixelElectrode.orientations.
\* Without paths the unpacking p, = [] raises.
orientations(e) ==
  IF e.kind = "point"
  THEN [r |-> [i \in 1..Len(e.areas) |-> 1], raises |-> "none", at |-> 0]
  ELSE IF e.paths = <<>>
  THEN [r |-> <<>>, raises |-> "ValueError", at |-> 283]
  ELSE [r |-> [i \in 1..Len(e.paths) |-> PathSign(e.paths[i])],
        raises |-> "none", at |-> 0]

(***************************************************************************)
(* PixelElectrode.split and PolygonPixelElectrode.to_points.               *)
(*                                                                         *)
(* A name is the sequence of its parts: "%s_%i" % (name, i) appends the    *)
(* part ToString(i).  A threshold is an integer or one of the two          *)
(* infinities: [inf |-> -1], [inf |-> 1], or [inf |-> 0, v |-> f].         *)
(***************************************************************************)
NegInf == [inf |-> -1, v |-> 0]
PosInf == [inf |-> 1, v |-> 0]
Finite(f) == [inf |-> 0, v |-> f]

\* ta <= f and f < tb for a threshold t and a number f.
ThresholdLe(t, f) == t.inf = -1 \/ (t.inf = 0 /\ t.v <= f)
LessThreshold(f, t) == t.inf = 1 \/ (t.inf = 0 /\ f < t.v)

\* np.argwhere(good): the primitives whose factor is in the band [ta, tb).
Good(e, ta, tb) ==
  LET idx == { j \in 1..Len(e.pixel_factors) :
                 ThresholdLe(ta, e.pixel_factors[j]) /\ LessThreshold(e.pixel_factors[j], tb) }
  IN  [k \in 1..Cardinality(idx) |->
         CHOOSE j \in idx : Cardinality({j2 \in idx : j2 < j}) = k - 1]

\* A sub-electrode that inherits cover_height and nmax.
SubElectrodeKeepingCover(e, i, good) ==
  [kind |-> e.kind, name |-> Append(e.name, ToString(i)),
   voltage_dc |-> e.voltage_dc, voltage_rf |-> e.voltage_rf,
   pixel_factors |-> Ones(Len(good)),
   cover_height |-> e.cover_height, nmax |-> e.nmax,
   paths |-> [k \in 1..Len(good) |-> e.paths[good[k]]]]

\* self.__class__(name=, paths=, voltage_dc=, voltage_rf=): the other
\* traits take their defaults.
SubElectrode(e, i, good) ==
  [kind |-> e.kind, name |-> Append(e.name, ToString(i)),
   voltage_dc |-> e.voltage_dc, voltage_rf |-> e.voltage_rf,
   pixel_factors |-> Ones(Len(good)),
   cover_height |-> 0, nmax |-> 0,
   paths |-> [k \in 1..Len(good) |-> e.paths[good[k]]]]

\* The loop over the bands i-1 = 0, 1, ...: acc holds the sub-electrodes
\* so far, the primitives of each, and the exception that ended the loop.
RECURSIVE SplitLoop(_, _, _, _)
SplitLoop(e, ts, i, acc) ==
  IF i >= Len(ts) \/ acc.raises # "none" THEN acc
  ELSE LET good == Good(e, ts[i], ts[i + 1])
       IN  IF good = <<>> THEN SplitLoop(e, ts, i + 1, acc)
           ELSE IF e.kind # "polygon"
           THEN \* self.paths: only a PolygonPixelElectrode has paths
                [acc EXCEPT !.raises = "AttributeError", !.at = 234]
           ELSE IF \E k \in 1..Len(good) : good[k] > Len(e.paths)
           THEN \* self.paths[j] for a factor beyond the last path
                [acc EXCEPT !.raises = "IndexError", !.at = 234]
           ELSE SplitLoop(e, ts, i + 1,
                  [acc EXCEPT !.r = Append(@, SubElectrode(e, i - 1, good)),
                              !.members = Append(@, good),
                              !.bands = Append(@, i - 1)])

\* A split whose None branch takes the sorted distinct pixel factors for
\* the thresholds.
SplitAtFactors(e, arg) ==
  LET S == { e.pixel_factors[j] : j \in 1..Len(e.pixel_factors) }
      list == IF arg.none
              THEN [i \in 1..Cardinality(S) |->
                      CHOOSE f \in S : Cardinality({ f2 \in S : f2 < f }) = i - 1]
              ELSE arg.list
      ts == <<NegInf>> \o [k \in 1..Len(list) |-> Finite(list[k])] \o <<PosInf>>
      out == SplitLoop(e, ts, 1,
               [r |-> <<>>, members |-> <<>>, bands |-> <<>>,
                raises |-> "none", at |-> 0])
  IN  IF out.raises # "none"
      THEN [r |-> <<>>, members |-> <<>>, bands |-> <<>>,
            raises |-> out.raises, at |-> out.at, returned |-> FALSE]
      ELSE out @@ [returned |-> TRUE]

\* split(thresholds): arg.none stands for thresholds=None, whose branch
\* assigns to another variable and leaves thresholds None.
split(e, arg) ==
  IF arg.none
  THEN [r |-> <<>>, members |-> <<>>, bands |-> <<>>, raises |-> "TypeError",
        at |-> 228, returned |-> FALSE]
  ELSE LET ts == <<NegInf>> \o [k \in 1..Len(arg.list) |-> Finite(arg.list[k])]
                            \o <<PosInf>>
           out == SplitLoop(e, ts, 1,
                    [r |-> <<>>, members |-> <<>>, bands |-> <<>>,
                     raises |-> "none", at |-> 0])
       IN  IF out.raises # "none"
           THEN [r |-> <<>>, members |-> <<>>, bands |-> <<>>,
                 raises |-> out.raises, at |-> out.at, returned |-> FALSE]
           ELSE out @@ [returned |-> TRUE]

\* utils.area_centroid of a path, as exact fractions: with
\* r_j = x1*y2 - x2*y1 over the edges, the area is sum(r)/2 and the
\* centroid sum((p1 + p2)*r)/(6*area).  A denominator 0 is a division
\* by zero.
area_centroid(path) ==
  LET r == [j \in 1..Len(path) |->
              path[j][1] * Roll(path, j)[2] - Roll(path, j)[1] * path[j][2]]
      sr == SumSeq(r)
  IN  [area |-> [num |-> sr, den |-> 2],
       centroid |-> [k \in 1..3 |->
                       [num |-> SumSeq([j \in 1..Len(path) |->
                                          (path[j][k] + Roll(path, j)[k]) * r[j]]),
                        den |-> 3 * sr]]]

\* A to_points that passes the voltages on.
to_points_with_voltages(e) ==
  IF e.paths = <<>>
  THEN [r |-> <<>>, raises |-> "ValueError", at |-> 296, returned |-> FALSE]
  ELSE [r |-> <<[kind |-> "point", name |-> e.name,
                 pixel_factors |-> e.pixel_factors,
                 nmax |-> e.nmax, cover_height |-> e.cover_height,
                 areas |-> [i \in 1..Len(e.paths) |->
                              area_centroid(e.paths[i]).area],
                 points |-> [i \in 1..Len(e.paths) |->
                               area_centroid(e.paths[i]).centroid],
                 voltage_dc |-> e.voltage_dc, voltage_rf |-> e.voltage_rf]>>,
        raises |-> "none", at |-> 0, returned |-> TRUE]

\* to_points(): a, c = zip(*(area_centroid(p) for p in self.paths)) raises
\* ValueError when there is no path (nothing to unpack); otherwise the
\* point electrode is built, and the voltages are not passed on.
to_points(e) ==
  IF e.paths = <<>>
  THEN [r |-> <<>>, raises |-> "ValueError", at |-> 296, returned |-> FALSE]
  ELSE [r |-> <<[kind |-> "point", name |-> e.name,
                 pixel_factors |-> e.pixel_factors,
                 nmax |-> e.nmax, cover_height |-> e.cover_height,
                 areas |-> [i \in 1..Len(e.paths) |->
                              area_centroid(e.paths[i]).area],
                 points |-> [i \in 1..Len(e.paths) |->
                               area_centroid(e.paths[i]).centroid],
                 voltage_dc |-> 0, voltage_rf |-> 0]>>,
        raises |-> "none", at |-> 0, returned |-> TRUE]

(***************************************************************************)
(* Inputs and calls of the geometry operations.                            *)
(***************************************************************************)
\* Paths in the plane z = 0 with vertices at integer distance from the
\* probe point: a square counter-clockwise and clockwise, a triangle, a
\* segment walked back and forth (no area, every edge term zero) and three
\* sides of the square walked forth and back (no area, the edge terms
\* cancel).
SquareCCW == <<<<2, 2, 0>>, <<-2, 2, 0>>, <<-2, -2, 0>>, <<2, -2, 0>>>>
SquareCW == <<<<2, -2, 0>>, <<-2, -2, 0>>, <<-2, 2, 0>>, <<2, 2, 0>>>>
Triangle == <<<<0, 0, 0>>, <<2, -2, 0>>, <<2, 2, 0>>>>
Segment == <<<<0, 0, 0>>, <<2, 2, 0>>>>
Retraced == <<<<2, 2, 0>>, <<-2, 2, 0>>, <<-2, -2, 0>>, <<2, -2, 0>>,
              <<-2, -2, 0>>, <<-2, 2, 0>>>>
PathSet == {SquareCCW, SquareCW, Triangle, Segment, Retraced}

PathLists == UNION { [1..n -> PathSet] : n \in 0..MaxPaths }

\* Pixel factors of length n as supplied, or as left at the default
\* _pixel_factors_default: all ones.
FactorVectors(n) ==
  {Ones(n)} \cup
  { [i \in 1..n |-> IF i % 2 = 1 THEN f[1] ELSE f[2]] :
      f \in PixelFactorValues \X PixelFactorValues }

\* PolygonPixelElectrode(name=, paths=, [pixel_factors=], [nmax=],
\* [cover_height=], [voltage_dc=], [voltage_rf=]).  The trait
\* pixel_factors is an Array of shape (None,) (line 124): factors of any
\* length are accepted, whatever the number of paths.
PolygonPixelElectrodes ==
  { [kind |-> "polygon", name |-> <<"e">>, voltage_dc |-> v[1], voltage_rf |-> v[2],
     pixel_factors |-> pf, cover_height |-> c[2], nmax |-> c[1], paths |-> ps] :
    ps \in PathLists, pf \in UNION { FactorVectors(n) : n \in 0..MaxPaths },
    c \in {<<0, 0>>, <<1, 1>>}, v \in {<<0, 0>>, <<2, -1>>} }

\* The electrodes the geometry operations start from: polygon electrodes
\* and point electrodes.
GeomElectrodes ==
  PolygonPixelElectrodes \cup
  { [e EXCEPT !.name = <<e.name>>] :
      e \in { e1 \in PointPixelElectrodes : e1.nmax = 0 /\ e1.cover_height = 0 } }

\* The argument of split: thresholds, None, or left out (the default [0]).
ThresholdArgs ==
  { [none |-> FALSE, list |-> l] :
      l \in {<<0>>, <<>>, <<-1, 1>>, <<1, 0>>, <<0, 0>>} } \cup
  { [none |-> TRUE, list |-> <<>>] }

InitGeom ==
  /\ el \in GeomElectrodes
  /\ last = [op |-> "none"]
  /\ show_progress = TRUE

CallSplit(arg) ==
  /\ last.op = "none"
  /\ last' = [op |-> "split", arg |-> arg] @@ split(el, arg)
  /\ UNCHANGED <<el, show_progress>>

CallToPoints ==
  /\ last.op = "none"
  /\ el.kind = "polygon"
  /\ last' = [op |-> "to_points"] @@ to_points(el)
  /\ UNCHANGED <<el, show_progress>>

CallOrientations ==
  /\ last.op = "none"
  /\ last' = [op |-> "orientations"] @@ orientations(el)
  /\ UNCHANGED <<el, show_progress>>

\* The caller goes on with one of the electrodes it was given.
Adopt(k) ==
  /\ last.op \in {"split", "to_points"}
  /\ k \in 1..Len(last.r)
  /\ Len(last.r[k].name) <= MaxSplitDepth + 1
  /\ el' = last.r[k]
  /\ last' = [op |-> "none"]
  /\ UNCHANGED show_progress

NextGeom ==
  \/ Return
  \/ \E arg \in ThresholdArgs : CallSplit(arg)
  \/ CallToPoints
  \/ CallOrientations
  \/ \E k \in 1..MaxPaths : Adopt(k)

SpecGeom == InitGeom /\ [][NextGeom]_vars

(***************************************************************************)
(* Calls of the kernel _point_value alone.                                 *)
(***************************************************************************)
\* The kernel is called with the areas and points of an electrode that has
\* no cover images.
KernelElectrodes ==
  { e \in PointPixelElectrodes :
      /\ e.nmax = 0 /\ e.cover_height = 0
      /\ e.voltage_dc = 0 /\ e.pixel_factors = Ones(Len(e.points)) }

KernelPoints == (-KMax..KMax) \X (-KMax..KMax) \X (-KMax..KMax)

KernelTuples == { <<0>>, <<1>>, <<2>>, <<3>>, <<4>>, <<5>>, <<0, 1>> }

InitKernel ==
  /\ el \in KernelElectrodes
  /\ last = [op |-> "none"]
  /\ show_progress = TRUE

CallPointValue(x, d) ==
  /\ last.op = "none"
  /\ ~OnSource(el, x)
  /\ last' = [op |-> "point_value", x |-> x, d |-> d, raises |-> "none",
              r |-> point_value(x, el.areas, el.points, d)]
  /\ UNCHANGED <<el, show_progress>>

NextKernel ==
  \/ Return
  \/ \E x \in KernelPoints, d \in KernelTuples : CallPointValue(x, d)

SpecKernel == InitKernel /\ [][NextKernel]_vars

(***************************************************************************)
(* potential() step by step, with another thread that replaces the pixel   *)
(* factors.  value() runs first and does not read the pixel factors; the   *)
(* loop then reads self.pixel_factors anew for each entry.  While a call   *)
(* is in flight last holds the entries v of value(), the entries r done so *)
(* far, the pixel factors each of them was weighted with (used) and        *)
(* whether the factors were replaced meanwhile (wrote).                    *)
(***************************************************************************)
ConcFactors(n) == {Ones(n), [i \in 1..n |-> 3 * (i % 2) - 1]}

ConcElectrodes ==
  { e \in PointPixelElectrodes :
      e.nmax = 0 /\ e.cover_height = 0 /\ e.voltage_dc = 2 }

\* The tuples asked for by pseudo_potential, pseudo_gradient and
\* pseudo_curvature, a single order and no order.
ConcTuples == { <<>>, <<0>>, <<1>>, <<1, 2>>, <<1, 2, 3>> }

InitConc ==
  /\ el \in ConcElectrodes
  /\ last = [op |-> "none"]
  /\ show_progress = TRUE

\* x = np.atleast_2d(x); v = self.value(x, *d)
BeginPotential(x, d) ==
  /\ last.op = "none"
  /\ ~OnSource(el, x)
  /\ last' = [op |-> "potential_running", x |-> x, d |-> d, raises |-> "none",
              v |-> value(el, x, d).r, r |-> <<>>, used |-> <<>>, wrote |-> FALSE]
  /\ UNCHANGED <<el, show_progress>>

\* A loop step that weights with the factors the previous step used.
StepPotentialCached ==
  /\ last.op = "potential_running"
  /\ Len(last.r) < Len(last.v)
  /\ LET i == Len(last.r) + 1
         pf == IF i = 1 THEN el.pixel_factors ELSE last.used[i - 1]
     IN  last' = [last EXCEPT
                    !.r = Append(@, PotentialEntry(pf, Yielded(last.d)[i], last.v[i])),
                    !.used = Append(@, pf)]
  /\ UNCHANGED <<el, show_progress>>

\* One pass of the loop: p = self.pixel_factors[:, None]*vi;
\* v[i] = expand_tensor(p.sum(axis=-2))
StepPotential ==
  /\ last.op = "potential_running"
  /\ Len(last.r) < Len(last.v)
  /\ LET i == Len(last.r) + 1
     IN  last' = [last EXCEPT
                    !.r = Append(@, PotentialEntry(el.pixel_factors,
                                                   Yielded(last.d)[i], last.v[i])),
                    !.used = Append(@, el.pixel_factors)]
  /\ UNCHANGED <<el, show_progress>>

\* return v
FinishPotential ==
  /\ last.op = "potential_running"
  /\ Len(last.r) = Len(last.v)
  /\ last' = [last EXCEPT !.op = "potential"]
  /\ UNCHANGED <<el, show_progress>>

\* Another thread assigns self.pixel_factors, between two calls or while
\* a call is in flight.
ReplaceFactors(pf) ==
  /\ last.op \in {"none", "potential_running"}
  /\ pf # el.pixel_factors
  /\ el' = [el EXCEPT !.pixel_factors = pf]
  /\ last' = IF last.op = "none" THEN last ELSE [last EXCEPT !.wrote = TRUE]
  /\ UNCHANGED show_progress

NextConc ==
  \/ Return
  \/ \E x \in FieldPoints, d \in ConcTuples : BeginPotential(x, d)
  \/ StepPotential
  \/ FinishPotential
  \/ \E pf \in ConcFactors(Len(el.pixel_factors)) : ReplaceFactors(pf)

SpecConc == InitConc /\ [][NextConc]_vars

(***************************************************************************)
(* Helpers of the properties.                                              *)
(***************************************************************************)
\* The element of a tensor at an index sequence.
RECURSIVE TensorAt(_, _)
TensorAt(T, idx) == IF idx = <<>> THEN T ELSE TensorAt(T[Head(idx)], Tail(idx))

TensorIndices(k) == [1..k -> 1..3]

\* The ascending index sequence with n[1] x's, n[2] y's and n[3] z's.
CanonicalIndex(n) ==
  [j \in 1..(n[1] + n[2] + n[3]) |->
     IF j <= n[1] THEN 1 ELSE IF j <= n[1] + n[2] THEN 2 ELSE 3]

\* Component c of pixel i in a kernel entry of order k.
Leaf(entry, k, c, i) == IF k = 0 THEN entry[i] ELSE entry[c][i]

Displaced(x, n, h) == <<x[1], x[2], x[3] + 2 * n * h>>

\* The bare kernel of order k alone, at the n-th image of x.
BareLeaf(e, x, n, k, c, i) ==
  Leaf(value_no_cover(e, Displaced(x, n, e.cover_height), <<k>>)[1], k, c, i)

\* The sum of the bare kernel over the images -m..m, from the inside out.
RECURSIVE ImageSum(_, _, _, _, _, _)
ImageSum(e, x, m, k, c, i) ==
  IF m = 0 THEN BareLeaf(e, x, 0, k, c, i)
  ELSE NumAdd(ImageSum(e, x, m - 1, k, c, i),
              NumAdd(BareLeaf(e, x, m, k, c, i), BareLeaf(e, x, -m, k, c, i)))

(***************************************************************************)
(* C1: value(x, *d) is the bare kernel at x plus, for each n in            *)
(* -nmax..-1 and 1..nmax, the bare kernel at x displaced by                *)
(* (0, 0, 2*n*cover_height): the kernel is called 2*nmax+1 times, once for *)
(* each n of -nmax..nmax (n = 0 once), every requested order sums the same *)
(* images, and with nmax = 0 the result is the bare kernel.                *)
(***************************************************************************)
C1_ValueIsImageSum ==
  (last.op = "value") =>
    LET x == last.x
        ks == Yielded(last.d)
    IN  /\ Len(last.r) = Len(ks)
        /\ Len(last.calls) = 2 * el.nmax + 1
        /\ \A n \in (-el.nmax)..el.nmax :
             Cardinality({j \in 1..Len(last.calls) :
                            /\ last.calls[j].n = n
                            /\ last.calls[j].xx = Displaced(x, n, el.cover_height)}) = 1
        /\ \A j \in 1..Len(ks), i \in 1..Len(el.points) :
             \A c \in 1..(IF ks[j] = 0 THEN 1 ELSE 2 * ks[j] + 1) :
               Leaf(last.r[j], ks[j], c, i) = ImageSum(el, x, el.nmax, ks[j], c, i)
        /\ el.nmax = 0 => last.r = value_no_cover(el, x, last.d)

C1_Witness ==
  /\ last.op = "value"
  /\ el.nmax = 2
  /\ el.cover_height = 1
  /\ Len(el.points) = 2
  /\ last.d = <<1, 2>>
  /\ Len(last.calls) = 5
  /\ last.r[2][3][1] # NumZero

(***************************************************************************)
(* C2: potential(x, *d) is, per requested order, the sum over the pixels i *)
(* of pixel_factors[i] times the cover-corrected kernel value of pixel i,  *)
(* taken before the tensor expansion: each independent component of the    *)
(* result is that sum.  It is linear in the pixel factors: all-zero        *)
(* factors give zero, and the potential for the factors u + v is the sum   *)
(* of the potentials for u and for v.                                      *)
(***************************************************************************)
RECURSIVE WeightedSum(_, _, _, _, _, _)
WeightedSum(pf, entry, k, c, i, acc) ==
  IF i > Len(pf) THEN acc
  ELSE WeightedSum(pf, entry, k, c, i + 1,
         NumAdd(acc, NumScale(pf[i], Leaf(entry, k, c, i))))

WithFactors(e, pf) == [e EXCEPT !.pixel_factors = pf]

\* A second set of pixel factors, unequal from pixel to pixel.
OtherFactors(n) == [i \in 1..n |-> IF i % 2 = 1 THEN -1 ELSE 2]

C2_PotentialIsWeightedSum ==
  (last.op = "potential" /\ el.kind = "point") =>
    LET x == last.x
        d == last.d
        ks == Yielded(d)
        n == Len(el.points)
        u == OtherFactors(n)
        zero == potential(WithFactors(el, [i \in 1..n |-> 0]), x, d).r
        ofU == potential(WithFactors(el, u), x, d).r
        ofSum == potential(WithFactors(el, [i \in 1..n |-> el.pixel_factors[i] + u[i]]),
                           x, d).r
    IN  /\ Len(last.r) = Len(ks)
        /\ \A j \in 1..Len(ks) :
             LET entry == value(el, x, <<ks[j]>>).r[1]
             IN  \A c \in 1..(2 * ks[j] + 1) :
                   TensorAt(last.r[j], CanonicalIndex(ComponentNames(ks[j])[c]))
                     = WeightedSum(el.pixel_factors, entry, ks[j], c, 1, NumZero)
        /\ \A j \in 1..Len(ks) :
             /\ zero[j] = TensorZero(ks[j])
             /\ ofSum[j] = TensorAdd(last.r[j], ofU[j], ks[j])

C2_Witness ==
  /\ last.op = "potential"
  /\ el.kind = "point"
  /\ el.pixel_factors = <<2, -1>>
  /\ el.nmax = 1
  /\ last.d = <<1, 2>>
  /\ last.r[2][1][3] # NumZero

(***************************************************************************)
(* C3: electrical_potential, _gradient, _curvature (and _thirdderiv of a   *)
(* pixel electrode) are voltage_dc times potential(x, k) for k = 0, 1, 2   *)
(* (3), element by element; they do not depend on voltage_rf, and with     *)
(* voltage_dc = 0 they are zero.                                           *)
(***************************************************************************)
C3_ElectricalIsDcScaled ==
  (last.op = "electrical") =>
    LET x == last.x
        k == last.k
    IN  /\ \A idx \in TensorIndices(k) :
             TensorAt(last.r, idx)
               = NumScale(el.voltage_dc, TensorAt(potential(el, x, <<k>>).r[1], idx))
        /\ \A v \in Voltages :
             electrical([el EXCEPT !.voltage_rf = v], x, k).r = last.r
        /\ el.voltage_dc = 0 => last.r = TensorZero(k)

C3_Witness ==
  /\ last.op = "electrical"
  /\ last.k = 2
  /\ el.kind = "point"
  /\ el.voltage_dc = 2
  /\ el.voltage_rf = -1
  /\ last.r[1][3] # NumZero

(***************************************************************************)
(* C4: pseudo_potential, pseudo_gradient and pseudo_curvature each make    *)
(* one call of potential(), at the field point they were given, asking for *)
(* the orders (1), (1, 2) and (1, 2, 3).                                   *)
(***************************************************************************)
C4_PseudoSingleEvaluation ==
  /\ last.op = "pseudo_potential" =>
       last.pcalls = <<[x |-> last.x, d |-> <<1>>]>>
  /\ last.op = "pseudo_gradient" =>
       last.pcalls = <<[x |-> last.x, d |-> <<1, 2>>]>>
  /\ last.op = "pseudo_curvature" =>
       last.pcalls = <<[x |-> last.x, d |-> <<1, 2, 3>>]>>

C4_Witness ==
  /\ last.op = "pseudo_gradient"
  /\ Len(last.pcalls) = 1
  /\ el.voltage_rf = -1
  /\ last.r[3] # NumZero

(***************************************************************************)
(* C5: with e, g, c the order-1, -2 and -3 potential tensors at x,         *)
(*   pseudo_potential    = voltage_rf^2 * sum_i e_i^2                      *)
(*   pseudo_gradient_j   = 2*voltage_rf^2 * sum_i e_i*g_ij                 *)
(*   pseudo_curvature_jk = 2*voltage_rf^2 * sum_i (g_ij*g_ik + e_i*c_ijk)  *)
(* so pseudo_potential is a nonnegative multiple of a sum of squares, all  *)
(* three are unchanged when voltage_rf is negated, and none depends on     *)
(* voltage_dc.                                                             *)
(***************************************************************************)
Sum3(f) == NumAdd(NumAdd(f[1], f[2]), f[3])

PseudoOf(op, e, x) ==
  CASE op = "pseudo_potential" -> pseudo_potential(e, x).r
    [] op = "pseudo_gradient" -> pseudo_gradient(e, x).r
    [] op = "pseudo_curvature" -> pseudo_curvature(e, x).r

C5_PseudoFormulas ==
  (last.op \in {"pseudo_potential", "pseudo_gradient", "pseudo_curvature"}) =>
    LET x == last.x
        e == potential(el, x, <<1>>).r[1]
        g == potential(el, x, <<2>>).r[1]
        c == potential(el, x, <<3>>).r[1]
        v2 == el.voltage_rf * el.voltage_rf
    IN  /\ last.op = "pseudo_potential" =>
             /\ v2 >= 0
             /\ last.r = NumScale(v2, Sum3([i \in 1..3 |-> NumMul(e[i], e[i])]))
        /\ last.op = "pseudo_gradient" =>
             \A j \in 1..3 :
               last.r[j] = NumScale(2 * v2, Sum3([i \in 1..3 |-> NumMul(e[i], g[i][j])]))
        /\ last.op = "pseudo_curvature" =>
             \A j \in 1..3, k \in 1..3 :
               last.r[j][k] =
                 NumScale(2 * v2,
                          NumAdd(Sum3([i \in 1..3 |-> NumMul(g[i][j], g[i][k])]),
                                 Sum3([i \in 1..3 |-> NumMul(e[i], c[i][j][k])])))
        /\ PseudoOf(last.op, [el EXCEPT !.voltage_rf = -el.voltage_rf], x) = last.r
        /\ \A v \in Voltages :
             PseudoOf(last.op, [el EXCEPT !.voltage_dc = v], x) = last.r

C5_Witness ==
  /\ last.op = "pseudo_curvature"
  /\ el.voltage_rf = -1
  /\ el.voltage_dc = 2
  /\ el.nmax = 1
  /\ last.r[1][3] # NumZero
  /\ last.r[3][3] # NumZero

(***************************************************************************)
(* C6: asking potential() or value() for a derivative order outside 0..5   *)
(* raises UnsupportedOrder instead of returning a result.                  *)
(***************************************************************************)
C6_UnsupportedOrderRaised ==
  (/\ last.op \in {"value", "potential"}
   /\ \E j \in 1..Len(last.d) : last.d[j] \notin 0..5)
    => last.raises = "UnsupportedOrder"

(***************************************************************************)
(* C7: the vector p that optimize returns meets the stacked targets,       *)
(* B.p = b, whenever it satisfies the constraints handed to the solver.    *)
(* The vector is last.p/last.pden.                                         *)
(***************************************************************************)
C7_ReturnedTargetsMet ==
  (/\ last.op = "optimize"
   /\ last.returned
   /\ Feasible([value |-> last.p, den |-> last.pden], last.eq, last.ctrs))
    => \A i \in 1..Len(last.B) :
         Dot(last.B[i], last.p) = last.pden * last.b[i]

(***************************************************************************)
(* C8: when B.g^T = b^T and g.g^T # 0, B1 = B - b^T.g/(g.g^T) annihilates  *)
(* g, and B1.p = B.p - b^T (g.p)/(g.g^T) for every p.  With g = G/D and    *)
(* B1 = num/GG: num.G = 0 and num.p = GG*(B.p) - D*b*(G.p), row by row.    *)
(***************************************************************************)
C8_B1AnnihilatesG ==
  (/\ last.op = "optimize"
   /\ last.at # 196
   /\ \A i \in 1..Len(last.B) : Dot(last.B[i], last.G) = last.D * last.b[i]
   /\ Dot(last.G, last.G) # 0)
    => LET GG == Dot(last.G, last.G)
       IN  /\ last.B1.den = GG
           /\ Len(last.B1.num) = Len(last.B)
           /\ \A i \in 1..Len(last.B) :
                /\ Dot(last.B1.num[i], last.G) = 0
                /\ \A q \in Grid(Len(last.G)) :
                     Dot(last.B1.num[i], q)
                       = GG * Dot(last.B[i], q) - last.D * last.b[i] * Dot(last.G, q)

C8_Witness ==
  /\ last.op = "optimize"
  /\ last.B = <<<<1, 0>>, <<1, 1>>>>
  /\ last.b = <<1, -1>>
  /\ last.G = <<1, -2>>
  /\ last.B1.den = 5
  /\ last.B1.num[1] = <<4, 2>>

(***************************************************************************)
(* C9: when the constraints supply no objective row (B has no rows),       *)
(* optimize fails with an UnderconstrainedOptimization condition at the    *)
(* pseudo-inverse step, before the solver is called, and returns no        *)
(* (p, c).                                                                 *)
(***************************************************************************)
C9_NoObjectiveRowsFails ==
  (last.op = "optimize" /\ Len(last.B) = 0) =>
    /\ last.raises = "UnderconstrainedOptimization"
    /\ last.at = 196
    /\ last.solver_calls = 0
    /\ last.status = "none"
    /\ ~last.returned
    /\ last.p = <<>>

(***************************************************************************)
(* C10: when the solver reports a status other than optimal, optimize      *)
(* fails with InfeasibleConstraints and returns no (p, c).                 *)
(***************************************************************************)
C10_InfeasibleRaised ==
  (/\ last.op = "optimize"
   /\ last.solver_calls = 1
   /\ last.status \in {"primal infeasible", "dual infeasible", "unknown"})
    => /\ last.raises = "InfeasibleConstraints"
       /\ ~last.returned

(***************************************************************************)
(* C11: when g.g^T is zero (for instance because every target value is     *)
(* zero), optimize raises NumericalIllConditioning and returns no (p, c),  *)
(* instead of dividing by g.g^T in B1 and in c.                            *)
(***************************************************************************)
C11_IllConditioningRaised ==
  (/\ last.op = "optimize"
   /\ Len(last.B) > 0
   /\ Dot(last.G, last.G) = 0)
    => /\ last.raises = "NumericalIllConditioning"
       /\ ~last.returned
       /\ last.B1.den # 0
       /\ last.c.den # 0

\* C12: split(thresholds) partitions the primitives of the electrode: for
\* every list of thresholds each primitive is in exactly one of the
\* returned sub-electrodes.
C12_SplitPartitions ==
  (last.op = "split" /\ ~last.arg.none /\ el.kind = "polygon") =>
    /\ last.raises = "none"
    /\ \A j \in 1..Len(el.paths) :
         Cardinality({ k \in 1..Len(last.members) :
                         \E m \in 1..Len(last.members[k]) : last.members[k][m] = j }) = 1

(***************************************************************************)
(* C13: CoverElectrode.potential returns z/cover_height for order 0, the   *)
(* constant vector (0, 0, 1/cover_height) for order 1, which is the exact  *)
(* gradient of the order-0 value (that value is linear in x, so the        *)
(* gradient is its difference over a unit step along each axis), and an    *)
(* all-zero tensor of shape 3^d for every order d in 2..5.                 *)
(***************************************************************************)
UnitStep(x, a) == [c \in DOMAIN x |-> IF c = a THEN x[c] + 1 ELSE x[c]]

\* T has the shape 3^k and every component of it is zero.
RECURSIVE IsZeroTensor(_, _)
IsZeroTensor(T, k) ==
  IF k = 0 THEN T = NumZero
  ELSE DOMAIN T = 1..3 /\ \A a \in 1..3 : IsZeroTensor(T[a], k - 1)

C13_CoverPotential ==
  (last.op = "potential" /\ el.kind = "cover") =>
    LET ks == Yielded(last.d)
        slope == NumUnit(1, UnitCode(el.cover_height, 0))
        phi(x) == potential(el, x, <<0>>).r[1]
    IN  /\ Len(last.r) = Len(ks)
        /\ \A i \in 1..Len(ks) :
             CASE ks[i] = 0 -> last.r[i] = NumScale(last.x[3], slope)
               [] ks[i] = 1 ->
                    /\ last.r[i] = <<NumZero, NumZero, slope>>
                    /\ \A a \in 1..3 :
                         last.r[i][a] =
                           NumAdd(phi(UnitStep(last.x, a)), NumNeg(phi(last.x)))
               [] OTHER -> IsZeroTensor(last.r[i], ks[i])

(***************************************************************************)
(* C14: evaluating the potential of an electrode whose voltages (or        *)
(* primitives) have not been set fails with an UninitializedElectrode      *)
(* condition instead of returning a value.                                 *)
(***************************************************************************)
\* The voltage traits were never assigned: both hold their default 0.
VoltagesUnset(e) == e.voltage_dc = 0 /\ e.voltage_rf = 0

EvaluationOps ==
  {"value", "potential", "electrical", "pseudo_potential", "pseudo_gradient",
   "pseudo_curvature"}

C14_UnsetElectrodeRaised ==
  (last.op \in EvaluationOps /\ VoltagesUnset(el)) =>
    last.raises = "UninitializedElectrode"

(***************************************************************************)
(* C15: evaluation is read-only and stateless.  No call of value,          *)
(* potential, electrical_* or pseudo_* changes the electrode (pixel        *)
(* factors, points, areas, voltages, cover_height, nmax) or anything else  *)
(* kept between calls, and the result a call returned is the one the same  *)
(* call returns on the electrode as it is after the call: a repeated       *)
(* evaluation at the same x gives the same result.                         *)
(***************************************************************************)
\* The call recorded in last, made again on the electrode as it is now.
Reevaluated ==
  CASE last.op = "value" -> value(el, last.x, last.d)
    [] last.op = "potential" -> potential(el, last.x, last.d)
    [] last.op = "electrical" -> electrical(el, last.x, last.k)
    [] last.op = "pseudo_potential" -> pseudo_potential(el, last.x)
    [] last.op = "pseudo_gradient" -> pseudo_gradient(el, last.x)
    [] last.op = "pseudo_curvature" -> pseudo_curvature(el, last.x)

Reproducible ==
  last.op \in EvaluationOps =>
    LET again == Reevaluated
    IN  \A f \in DOMAIN again : last[f] = again[f]

ReadOnlyStep ==
  last'.op \in EvaluationOps => (el' = el /\ show_progress' = show_progress)

C15_EvaluationReadOnly == []Reproducible /\ [][ReadOnlyStep]_vars

\* An evaluation returned a nonzero value on an electrode whose pixel
\* factors, areas, voltages, nmax and cover_height differ from the defaults.
C15_Witness ==
  /\ last.op = "value"
  /\ last.d = <<0>>
  /\ last.r[1] # <<NumZero, NumZero>>
  /\ el.kind = "point"
  /\ Len(el.points) = 2
  /\ el.pixel_factors # Ones(2)
  /\ el.areas # Ones(2)
  /\ el.nmax > 0
  /\ el.cover_height > 0
  /\ el.voltage_dc # 0

(***************************************************************************)
(* C16: the pixel-factor vector of every electrode has one entry per       *)
(* primitive (point or path), and where the factors are not supplied they  *)
(* are all ones.  This holds for the electrodes built directly, for the    *)
(* electrode to_points returns and for the sub-electrodes split returns.   *)
(***************************************************************************)
PrimitiveCount(e) == IF e.kind = "point" THEN Len(e.points) ELSE Len(e.paths)

FactorPerPrimitive(e) ==
  /\ DOMAIN e.pixel_factors = 1..PrimitiveCount(e)
  /\ e.kind = "point" => Len(e.areas) = PrimitiveCount(e)

C16_FactorPerPrimitive ==
  /\ FactorPerPrimitive(el)
  /\ (last.op \in {"split", "to_points"} /\ last.raises = "none") =>
       \A k \in 1..Len(last.r) : FactorPerPrimitive(last.r[k])
  /\ (last.op = "split" /\ last.raises = "none") =>
       \A k \in 1..Len(last.r) :
         last.r[k].pixel_factors = Ones(Len(last.members[k]))
  /\ (last.op = "to_points" /\ last.raises = "none") =>
       /\ Len(last.r) = 1
       /\ last.r[1].pixel_factors = el.pixel_factors

(***************************************************************************)
(* C17: for a single point primitive at the origin with unit area and unit *)
(* pixel factor, nmax = 0 and the field point (0, 0, 1), the order-0       *)
(* potential is 1/(2*pi) and the order-1 gradient is (0, 0, -2/(2*pi)).    *)
(* At r = 1 the units U(1, 3) and U(1, 5) both stand for 1/(2*pi), so the  *)
(* coefficients of the Nums are the rational factors 1 and 0, 0, -2.       *)
(***************************************************************************)
UnitPointAtOrigin(e) ==
  /\ e.kind = "point"
  /\ e.points = <<<<0, 0, 0>>>>
  /\ e.areas = <<1>>
  /\ e.pixel_factors = <<1>>
  /\ e.nmax = 0

C17_UnitPointValues ==
  (last.op = "potential" /\ UnitPointAtOrigin(el) /\ last.x = <<0, 0, 1>>) =>
    LET ks == Yielded(last.d)
    IN  /\ potential(el, last.x, <<0>>).r = <<NumUnit(1, UnitCode(1, 3))>>
        /\ \A i \in 1..Len(ks) :
             /\ ks[i] = 0 => last.r[i] = NumUnit(1, UnitCode(1, 3))
             /\ ks[i] = 1 =>
                  last.r[i] = <<NumZero, NumZero, NumUnit(-2, UnitCode(1, 5))>>

\* The gradient of the unit point was asked for at (0, 0, 1).
C17_Witness ==
  /\ last.op = "potential"
  /\ UnitPointAtOrigin(el)
  /\ el.cover_height = 1
  /\ last.x = <<0, 0, 1>>
  /\ last.d = <<1>>
  /\ Len(last.r) = 1
  /\ Coef(last.r[1][3], <<UnitCode(1, 5)>>) = -2

(***************************************************************************)
(* C18: the closed-form components of order d+1 are the exact derivatives  *)
(* of the components of order d, d = 0..3.  A component of order d is      *)
(* f*N/(2*pi*r^(2d+3)) with N its numerator, a polynomial of degree d+1 in *)
(* the offset (x, y, z), and f = KernelFactor(d); its derivative along the *)
(* axis a is f*(dN/da*r^2 - (2d+3)*x_a*N)/(2*pi*r^(2d+5)).  The derivative *)
(* of a polynomial of degree <= 4 is exactly                               *)
(*   (N(t-2) - 8*N(t-1) + 8*N(t+1) - N(t+2))/12,                           *)
(* so the claim is that for every component m of order d+1 and every axis  *)
(* a it has an index of,                                                   *)
(*   f_d*(D12*r^2 - 12*(2d+3)*x_a*N_n) = 12*f_(d+1)*N_m,   n = m less a,   *)
(* and the order-0 component is a*z/(2*pi*r^3).  A component n that the    *)
(* kernel does not store is the one that makes the tensor traceless.       *)
(***************************************************************************)
\* The denominators 2*pi, 2*pi, 2*pi/3, 2*pi/3, 2*pi/15, 2*pi/45 (times a
\* power of r) of the orders 0..5.
KernelFactor(k) ==
  CASE k = 0 -> 1 [] k = 1 -> 1 [] k = 2 -> 3 [] k = 3 -> 3 [] k = 4 -> 15
    [] k = 5 -> 45

\* The numerator of the component with the index counts n of order k at
\* the offset q.
NumeratorAt(k, n, q) ==
  LET nums == PointNumerators(k, q[1], q[2], q[3], norm2(q))
  IN  Coef(TensorComponent([j \in 1..Len(nums) |-> NumInt(nums[j])], k, n), <<>>)

Shifted(q, a, s) == [c \in 1..3 |-> IF c = a THEN q[c] + s ELSE q[c]]

\* Twelve times the derivative of the numerator along the axis a.
D12(k, n, q, a) ==
  NumeratorAt(k, n, Shifted(q, a, -2)) - 8 * NumeratorAt(k, n, Shifted(q, a, -1))
    + 8 * NumeratorAt(k, n, Shifted(q, a, 1)) - NumeratorAt(k, n, Shifted(q, a, 2))

\* Twelve times f_k times the numerator of the derivative along a of the
\* component n of order k - 1.
DerivativeNumerator12(k, n, q, a) ==
  KernelFactor(k - 1) *
    (D12(k - 1, n, q, a) * norm2(q) - 12 * (2 * k + 1) * q[a] * NumeratorAt(k - 1, n, q))

Offset(i) == [c \in 1..3 |-> last.x[c] - el.points[i][c]]

C18_KernelIsDerivative ==
  (last.op = "point_value" /\ Len(last.d) = 1 /\ last.d[1] \in 0..4) =>
    LET k == last.d[1]
    IN  \A i \in 1..Len(el.points) :
          IF k = 0
          THEN last.r[1][i] =
                 NumUnit(el.areas[i] * Offset(i)[3], UnitCode(norm2(Offset(i)), 3))
          ELSE \A c \in 1..(2 * k + 1), a \in 1..3 :
                 LET m == ComponentNames(k)[c]
                     n == [m EXCEPT ![a] = @ - 1]
                     d12 == DerivativeNumerator12(k, n, Offset(i), a)
                 IN  m[a] > 0 =>
                       /\ d12 % (12 * KernelFactor(k)) = 0
                       /\ last.r[1][c][i] =
                            NumUnit(el.areas[i] * (d12 \div (12 * KernelFactor(k))),
                                    PointUnit(k, norm2(Offset(i))))

\* The kernel returned an order-4 entry with a nonzero component at an
\* offset with no zero coordinate, for two pixels of different area.
C18_Witness ==
  /\ last.op = "point_value"
  /\ last.d = <<4>>
  /\ Len(el.points) = 2
  /\ el.areas[1] # el.areas[2]
  /\ \A i \in 1..2, c \in 1..3 : Offset(i)[c] # 0
  /\ \A i \in 1..2 : last.r[1][1][i] # NumZero

(***************************************************************************)
(* C19: away from the sources, every tensor of order >= 2 that potential() *)
(* returns is traceless: for any two of its index positions, the sum over  *)
(* i = x, y, z of the components with both positions set to i is zero,     *)
(* whatever the other indices are.  (An order-1 entry has a single index   *)
(* and nothing to contract.)  The expansion fills the components the       *)
(* kernel does not store so that the traces vanish; the tensor returned is *)
(* the derivative tensor of the kernel only if the kernel of the source is *)
(* harmonic, that is if every component filled in is the derivative of the *)
(* components one order below, as C18 shows of the stored ones.  With the  *)
(* seven-point difference, exact for the numerators of all orders,         *)
(*   (-N(t-3) + 9*N(t-2) - 45*N(t-1) + 45*N(t+1) - 9*N(t+2) + N(t+3))/60,  *)
(* this is, for every component m of order k that is not stored and every  *)
(* axis a it has an index of,                                              *)
(*   f_(k-1)*(D60*r^2 - 60*(2k+1)*x_a*N_n) = 60*f_k*N_m,   n = m less a,   *)
(* at the offsets of the field point from the pixels.                      *)
(***************************************************************************)
Contracted(T, k, idx, p, q) ==
  NumSum([i \in 1..3 |->
            TensorAt(T, [j \in 1..k |-> IF j = p \/ j = q THEN i ELSE idx[j]])])

Traceless(T, k) ==
  \A p \in 1..k, q \in 1..k :
    p < q =>
      \A idx \in { f \in TensorIndices(k) : f[p] = 1 /\ f[q] = 1 } :
        Contracted(T, k, idx, p, q) = NumZero

\* Sixty times the derivative of the numerator along the axis a.
D60(k, n, q, a) ==
  - NumeratorAt(k, n, Shifted(q, a, -3)) + 9 * NumeratorAt(k, n, Shifted(q, a, -2))
    - 45 * NumeratorAt(k, n, Shifted(q, a, -1)) + 45 * NumeratorAt(k, n, Shifted(q, a, 1))
    - 9 * NumeratorAt(k, n, Shifted(q, a, 2)) + NumeratorAt(k, n, Shifted(q, a, 3))

\* Sixty times f_k times the numerator of the derivative along a of the
\* component n of order k - 1.
DerivativeNumerator60(k, n, q, a) ==
  KernelFactor(k - 1) *
    (D60(k - 1, n, q, a) * norm2(q) - 60 * (2 * k + 1) * q[a] * NumeratorAt(k - 1, n, q))

\* The index counts (times x, times y, times z) of the components of order k.
IndexCounts(k) == { n \in [1..3 -> 0..k] : n[1] + n[2] + n[3] = k }

Stored(k, n) == \E j \in 1..Len(ComponentNames(k)) : ComponentNames(k)[j] = n

\* Every component of order k that the expansion fills in is, at the
\* offset q, the derivative of the components of order k - 1.
CompletionIsDerivative(k, q) ==
  \A m \in IndexCounts(k), a \in 1..3 :
    (~Stored(k, m) /\ m[a] > 0) =>
      DerivativeNumerator60(k, [m EXCEPT ![a] = @ - 1], q, a) =
        60 * KernelFactor(k) * NumeratorAt(k, m, q)

Reversed(path) == [j \in 1..Len(path) |-> path[Len(path) - j + 1]]

\* The edge of the path that the j-th edge of the reversed path walks back.
EdgeWalkedBack(path, j) == IF j = Len(path) THEN j ELSE Len(path) - j

\* The edge terms of the reversed path are those of the path, negated in
\* the first arctan2 argument.
EdgesNegated(path) ==
  \A j \in 1..Len(path) :
    LET back == EdgeTerm(ProbePoint, Reversed(path), j)
        forth == EdgeTerm(ProbePoint, path, EdgeWalkedBack(path, j))
    IN  back.a = -forth.a /\ back.b = forth.b

C20_ReversalAlwaysNegates ==
  (last.op = "orientations" /\ el.kind = "polygon" /\ last.raises = "none") =>
    /\ Len(last.r) = Len(el.paths)
    /\ \A i \in 1..Len(el.paths) :
         /\ el.paths[i] = SquareCCW => last.r[i] = 1
         /\ EdgesNegated(el.paths[i])
         /\ PathSign(Reversed(el.paths[i])) = -last.r[i]

(***************************************************************************)
(* C21: optimize drops exactly one row of B1, always the last one, before  *)
(* it adds the equality B1*p = 0.  The equality handed to the solver has   *)
(* rows(B) - 1 rows, the first rows of B1 in their order (none for a       *)
(* single objective row), the rows of B are the objective rows in the      *)
(* order of the constraints, and with the constraints in the opposite      *)
(* order it is the other target that is left unconstrained.                *)
(***************************************************************************)
ReversedList(s) == [i \in 1..Len(s) |-> s[Len(s) - i + 1]]

C21_LastRowDropped ==
  (last.op = "optimize" /\ last.at # 196) =>
    LET obj == Flatten([i \in 1..Len(last.constraints) |-> last.constraints[i].obj])
    IN  /\ Len(last.B) = Len(obj)
        /\ \A i \in 1..Len(obj) : last.B[i] = obj[i][1] /\ last.b[i] = obj[i][2]
        /\ Len(last.B1.num) = Len(last.B)
        /\ Len(last.eq) = Len(last.B) - 1
        /\ \A i \in 1..Len(last.eq) : last.eq[i] = last.B1.num[i]
        /\ Len(last.B) = 2 =>
             \A other \in optimize(el, ReversedList(last.constraints),
                                   last.verbose, show_progress) :
               other.eq = <<last.B1.num[2]>>

\* Two targets with different rows: the equality is the first row of B1
\* and differs from the row that was dropped.
C21_Witness ==
  /\ last.op = "optimize"
  /\ last.returned
  /\ Len(last.B) = 2
  /\ last.B[1] # last.B[2]
  /\ Len(last.eq) = 1
  /\ last.eq[1] = last.B1.num[1]
  /\ last.B1.num[1] # last.B1.num[2]

(***************************************************************************)
(* C22: every p that satisfies the equality optimize hands to the solver   *)
(* meets the targets up to a common factor: B_i.p = c*b_i for every        *)
(* objective row i but the last, with c = (p.g^T)/(g.g^T), the factor that *)
(* is returned with p.  With g = G/D and c = D*(p.G)/(G.G) this reads      *)
(* (G.G)*(B_i.p) = D*(p.G)*b_i; c is not fixed to 1.  The returned vector  *)
(* is last.p/last.pden and c = last.c.num/last.c.den.                      *)
(***************************************************************************)
C22_TargetsMetUpToScale ==
  (last.op = "optimize" /\ last.at # 196 /\ last.B1.den # 0) =>
    /\ \A q \in Grid(Len(el.pixel_factors)) :
         (\A i \in 1..Len(last.eq) : Dot(last.eq[i], q) = 0) =>
           \A i \in 1..(Len(last.B) - 1) :
             Dot(last.G, last.G) * Dot(last.B[i], q)
               = last.D * Dot(q, last.G) * last.b[i]
    /\ last.returned =>
         /\ last.pden > 0
         /\ last.c = [num |-> last.D * Dot(last.p, last.G),
                      den |-> Dot(last.G, last.G) * last.pden]
         /\ \A i \in 1..(Len(last.B) - 1) :
              last.c.den * Dot(last.B[i], last.p)
                = last.c.num * last.b[i] * last.pden

\* A returned p that meets a nonzero first target with a factor c that is
\* neither 0 nor 1.
C22_Witness ==
  /\ last.op = "optimize"
  /\ last.returned
  /\ Len(last.B) = 2
  /\ last.b[1] # 0
  /\ last.c.num # 0
  /\ last.c.num # last.c.den
  /\ last.c.den * Dot(last.B[1], last.p) = last.c.num * last.b[1] * last.pden

(***************************************************************************)
(* C23: optimize only returns (p, c).  No optimize call assigns the pixel  *)
(* factors, the voltages or the geometry of the electrode, so across       *)
(* optimize calls the potential at every point stays what it was; the      *)
(* electrode changes only when the caller writes p back, and then only in  *)
(* its pixel factors.                                                      *)
(***************************************************************************)
PotentialsOf(e) ==
  [x \in FieldPoints |-> potential(e, x, <<0, 1, 2>>).r]

OptimizeLeavesElectrode ==
  /\ last'.op = "optimize" => (el' = el /\ PotentialsOf(el') = PotentialsOf(el))
  /\ el' # el =>
       /\ last.op = "optimize" /\ last.returned /\ last'.op = "none"
       /\ el' = [el EXCEPT !.pixel_factors = last.p]

C23_OptimizeOnlyReturns == [][OptimizeLeavesElectrode]_vars

\* After an earlier p was written back, optimize returned another p and
\* the electrode still has the earlier one.
C23_Witness ==
  /\ last.op = "optimize"
  /\ last.returned
  /\ Len(el.pixel_factors) = 2
  /\ el.pixel_factors # Ones(2)
  /\ last.p # el.pixel_factors
  /\ PotentialsOf(el) # PotentialsOf([el EXCEPT !.pixel_factors = last.p])

(***************************************************************************)
(* C24: potential() reads the pixel factors once per order it was asked    *)
(* for, not once per call.  Every entry is weighted with the factors the   *)
(* electrode has when the loop reaches it, so a write by another thread    *)
(* during a call of several orders can leave the orders of one result      *)
(* weighted with different vectors; when no write falls into the call all  *)
(* its entries are weighted with the one vector of the electrode and the   *)
(* result is potential(x, *d).                                             *)
(***************************************************************************)
ReadPerOrder ==
  (last.op = "potential_running" /\ last'.op = "potential_running"
     /\ Len(last'.r) = Len(last.r) + 1) =>
    LET i == Len(last'.r)
    IN  /\ last'.used[i] = el.pixel_factors
        /\ last'.r[i] = PotentialEntry(el.pixel_factors, Yielded(last.d)[i], last.v[i])

UndisturbedCall ==
  (last.op = "potential" /\ ~last.wrote) =>
    /\ \A i \in 1..Len(last.used) : last.used[i] = el.pixel_factors
    /\ last.r = potential(el, last.x, last.d).r

C24_FactorsReadPerOrder == []UndisturbedCall /\ [][ReadPerOrder]_vars

\* A finished call of the orders 1 and 2 whose gradient and curvature are
\* weighted with different pixel factors, each entry nonzero.
C24_Witness ==
  /\ last.op = "potential"
  /\ last.d = <<1, 2>>
  /\ last.wrote
  /\ last.used[1] # last.used[2]
  /\ last.r[1] # PotentialEntry(last.used[2], 1, last.v[1])
  /\ last.r[2] # PotentialEntry(last.used[1], 2, last.v[2])

(***************************************************************************)
(* C25: the list returned by potential, value and value_no_cover has one   *)
(* entry per distinct order within 0..5 among the arguments, in ascending  *)
(* order whatever the order or the repetition of the arguments: entry i is *)
(* what the call for the i-th smallest of these orders alone returns       *)
(* (potential(x, 2, 1) is [order 1, order 2]).                             *)
(***************************************************************************)
AscendingOrders(d) ==
  LET S == { k \in 0..5 : \E i \in 1..Len(d) : d[i] = k }
  IN  [i \in 1..Cardinality(S) |->
         CHOOSE k \in S : Cardinality({ j \in S : j < k }) = i - 1]

C25_EntriesAscending ==
  (last.op \in {"value", "potential"}) =>
    LET ks == AscendingOrders(last.d)
    IN  /\ Len(last.r) = Len(ks)
        /\ \A i \in 1..Len(ks) :
             last.r[i] = IF last.op = "value"
                         THEN value(el, last.x, <<ks[i]>>).r[1]
                         ELSE potential(el, last.x, <<ks[i]>>).r[1]
        /\ el.kind = "point" =>
             LET bare == value_no_cover(el, last.x, last.d)
             IN  /\ Len(bare) = Len(ks)
                 /\ \A i \in 1..Len(ks) :
                      bare[i] = value_no_cover(el, last.x, <<ks[i]>>)[1]

\* potential(x, 2, 1) returned the gradient first and the curvature second.
C25_Witness ==
  /\ last.op = "potential"
  /\ last.d = <<2, 1>>
  /\ el.kind = "point"
  /\ Len(last.r) = 2
  /\ last.r[1] = potential(el, last.x, <<1>>).r[1]
  /\ last.r[2] = potential(el, last.x, <<2>>).r[1]
  /\ last.r[2][1][1] # NumZero

(***************************************************************************)
(* C26: the cover_height of a PixelElectrode defaults to 0, not to the 100 *)
(* of a CoverElectrode.  With cover_height left at 0 and nmax = N > 0      *)
(* every image term is evaluated at the field point itself, so every entry *)
(* of value(x, *d) is 2N+1 times the bare kernel.                          *)
(***************************************************************************)
\* Every component of every pixel of a kernel entry of order k, times s.
EntryScale(s, k, A) ==
  IF k = 0 THEN [i \in DOMAIN A |-> NumScale(s, A[i])]
  ELSE [c \in DOMAIN A |-> [i \in DOMAIN A[c] |-> NumScale(s, A[c][i])]]

C26_ZeroCoverHeightMultiplies ==
  /\ PixelCoverHeightDefault # CoverElectrodeHeightDefault
  /\ (last.op = "value" /\ el.cover_height = PixelCoverHeightDefault) =>
       LET bare == value_no_cover(el, last.x, last.d)
       IN  /\ Len(last.r) = Len(bare)
           /\ \A j \in 1..Len(last.calls) : last.calls[j].xx = last.x
           /\ Len(last.calls) = 2 * el.nmax + 1
           /\ \A i \in 1..Len(bare) :
                last.r[i] = EntryScale(2 * el.nmax + 1, Yielded(last.d)[i], bare[i])

\* A value of the orders 1 and 2 with nmax = 2 and the cover height 0:
\* five times the bare kernel, which is not zero.
C26_Witness ==
  /\ last.op = "value"
  /\ el.cover_height = 0
  /\ el.nmax = 2
  /\ last.d = <<1, 2>>
  /\ last.r[1][3][1] # NumZero
  /\ last.r[1][3][1] = NumScale(5, value_no_cover(el, last.x, <<1>>)[1][3][1])

(***************************************************************************)
(* C27: to_points() of a polygon electrode with at least one path returns  *)
(* a PointPixelElectrode with the name, the pixel factors, nmax and        *)
(* cover_height of the polygon electrode and one point per path, the area  *)
(* and the centroid of the path, in the order of the paths; it does not    *)
(* pass the voltages on, so voltage_dc and voltage_rf of the result are at *)
(* their default 0.  Without any path it raises ValueError at line 296 and *)
(* returns nothing.  (The counter-clockwise square                         *)
(* of side 4 has the area 16 and the centroid at the origin, the triangle  *)
(* the area 4 and the centroid (4/3, 0, 0); areas and coordinates are kept *)
(* as fractions.)                                                          *)
(***************************************************************************)
FractionIs(f, num, den) == f.den # 0 /\ f.num * den = num * f.den

\* The point electrode pe is what to_points builds from the electrode e.
PointsOf(pe, e) ==
  /\ pe.kind = "point"
  /\ pe.name = e.name
  /\ pe.pixel_factors = e.pixel_factors
  /\ pe.nmax = e.nmax
  /\ pe.cover_height = e.cover_height
  /\ pe.voltage_dc = 0
  /\ pe.voltage_rf = 0
  /\ Len(pe.points) = Len(e.paths)
  /\ Len(pe.areas) = Len(e.paths)
  /\ \A i \in 1..Len(e.paths) :
       /\ pe.areas[i] = area_centroid(e.paths[i]).area
       /\ pe.points[i] = area_centroid(e.paths[i]).centroid
       /\ e.paths[i] = SquareCCW =>
            /\ FractionIs(pe.areas[i], 16, 1)
            /\ \A k \in 1..3 : FractionIs(pe.points[i][k], 0, 1)
       /\ e.paths[i] = SquareCW => FractionIs(pe.areas[i], -16, 1)
       /\ e.paths[i] = Triangle =>
            /\ FractionIs(pe.areas[i], 4, 1)
            /\ FractionIs(pe.points[i][1], 4, 3)
            /\ FractionIs(pe.points[i][2], 0, 1)
            /\ FractionIs(pe.points[i][3], 0, 1)

C27_ToPointsDropsVoltages ==
  last.op = "to_points" =>
    IF el.paths = <<>>
    THEN last.raises = "ValueError" /\ last.at = 296 /\ last.r = <<>>
    ELSE /\ last.raises = "none"
         /\ Len(last.r) = 1
         /\ PointsOf(last.r[1], el)

\* C27 as stated: to_points() of any polygon electrode returns the point
\* electrode.
C27_ToPointsAlwaysReturns ==
  last.op = "to_points" =>
    /\ last.raises = "none"
    /\ Len(last.r) = 1
    /\ PointsOf(last.r[1], el)

\* to_points of an electrode with voltages 2 and -1, cover images and the
\* factors -1 and 2 on a square and a triangle.
C27_Witness ==
  /\ last.op = "to_points"
  /\ last.raises = "none"
  /\ el.voltage_dc = 2
  /\ el.voltage_rf = -1
  /\ el.nmax = 1
  /\ el.cover_height = 1
  /\ el.pixel_factors = <<-1, 2>>
  /\ el.paths = <<SquareCCW, Triangle>>
  /\ last.r[1].voltage_dc = 0
  /\ last.r[1].pixel_factors = <<-1, 2>>

(***************************************************************************)
(* C28: a sub-electrode returned by split has the paths of its band, in    *)
(* their order, and the voltage_dc and voltage_rf of the electrode; its    *)
(* pixel factors are all ones and its cover_height and nmax are the        *)
(* defaults 0.  Its name is the name of the electrode with the index k of  *)
(* its band appended ('<name>_<k>').  A band without primitive gives no    *)
(* sub-electrode, so the indices in the names can skip values.             *)
(***************************************************************************)
\* f lies in band k (counted from 0) of the thresholds t.
InBand(f, t, k) ==
  /\ k = 0 \/ t[k] <= f
  /\ k = Len(t) \/ f < t[k + 1]

BandMembers(e, t, k) == { j \in 1..Len(e.pixel_factors) : InBand(e.pixel_factors[j], t, k) }

C28_SubElectrodeContents ==
  (last.op = "split" /\ last.raises = "none") =>
    LET t == last.arg.list
        filled == { k \in 0..Len(t) : BandMembers(el, t, k) # {} }
    IN  /\ Len(last.r) = Cardinality(filled)
        /\ { last.bands[i] : i \in 1..Len(last.bands) } = filled
        /\ \A i \in 1..Len(last.r) :
             LET sub == last.r[i]
                 k == last.bands[i]
                 mem == last.members[i]
             IN  /\ i > 1 => last.bands[i - 1] < k
                 /\ { mem[m] : m \in 1..Len(mem) } = BandMembers(el, t, k)
                 /\ \A m \in 1..(Len(mem) - 1) : mem[m] < mem[m + 1]
                 /\ sub.paths = [m \in 1..Len(mem) |-> el.paths[mem[m]]]
                 /\ sub.kind = el.kind
                 /\ sub.voltage_dc = el.voltage_dc
                 /\ sub.voltage_rf = el.voltage_rf
                 /\ sub.pixel_factors = Ones(Len(mem))
                 /\ sub.cover_height = PixelCoverHeightDefault
                 /\ sub.nmax = 0
                 /\ sub.name = el.name \o <<ToString(k)>>

\* split([0, 0]) of an electrode with cover images, voltages and the
\* factors -1 and 2: the sub-electrodes e_0 and e_2, none for band 1.
C28_Witness ==
  /\ last.op = "split"
  /\ last.raises = "none"
  /\ last.arg = [none |-> FALSE, list |-> <<0, 0>>]
  /\ el.name = <<"e">>
  /\ el.pixel_factors = <<-1, 2>>
  /\ el.nmax = 1
  /\ el.cover_height = 1
  /\ el.voltage_dc = 2
  /\ Len(last.r) = 2
  /\ last.r[1].name = <<"e", "0">>
  /\ last.r[2].name = <<"e", "2">>

(***************************************************************************)
(* C29: split(thresholds=None) never returns sub-electrodes.  The None     *)
(* branch assigns the sorted distinct pixel factors to another variable,   *)
(* so the concatenation [-inf] + None + [inf] raises (a TypeError) on      *)
(* every electrode, and the electrode is left as it was.                   *)
(***************************************************************************)
SplitNoneRaises ==
  (last.op = "split" /\ last.arg.none) =>
    /\ last.raises = "TypeError"
    /\ last.at = 228
    /\ ~last.returned
    /\ last.r = <<>>

SplitLeavesElectrode == last'.op = "split" => el' = el

C29_SplitNoneRaises == []SplitNoneRaises /\ [][SplitLeavesElectrode]_vars

\* split(None) on a polygon electrode with two paths and two distinct
\* pixel factors.
C29_Witness ==
  /\ last.op = "split"
  /\ last.arg.none
  /\ last.raises = "TypeError"
  /\ el.kind = "polygon"
  /\ Len(el.paths) = 2
  /\ Len(el.pixel_factors) = 2
  /\ el.pixel_factors[1] # el.pixel_factors[2]

(***************************************************************************)
(* C30: optimize(verbose=False) sets the solver option show_progress to    *)
(* False and no call sets it back: once a call with verbose=False was      *)
(* made, every later call, optimize(verbose=True) included, runs the       *)
(* solver with show_progress False.                                        *)
(***************************************************************************)
\* No step sets the option back.
ProgressStaysOff == show_progress = FALSE => show_progress' = FALSE

\* As stated: every call with verbose=False leaves the option False.
QuietCallSetsOption ==
  (last'.op = "optimize" /\ ~last'.verbose) => show_progress' = FALSE

C30_QuietCallAlwaysSticks == [][QuietCallSetsOption /\ ProgressStaysOff]_vars

\* A call that fails before line 211 (pinv of a B without rows, line 196)
\* never reaches the assignment: the statement holds for the calls that
\* get as far as the solver, and such a call leaves the option as it was.
QuietCallSetsOptionAtSolver ==
  /\ (last'.op = "optimize" /\ ~last'.verbose /\ last'.solver_calls = 1) =>
       show_progress' = FALSE
  /\ (last'.op = "optimize" /\ (last'.verbose \/ last'.solver_calls = 0)) =>
       show_progress' = show_progress
  /\ last'.op = "optimize" => last'.show_progress = show_progress'

C30_QuietSolveSticks == [][QuietCallSetsOptionAtSolver /\ ProgressStaysOff]_vars

\* An optimize(verbose=True) that ran the solver, and returned, with the
\* option off: an earlier call had verbose=False.
C30_Witness ==
  /\ last.op = "optimize"
  /\ last.verbose
  /\ last.solver_calls = 1
  /\ last.returned
  /\ show_progress = FALSE

=============================================================================
